---- MODULE Spec2Model ----
(***************************************************************************)
(* Model of the departure-time optimizer of depart-smart:                  *)
(*   src/lib/time-utils.ts        parseTimeToDate, formatTimeForInput,     *)
(*                                addMinutes, getTimeDifferenceInMinutes,  *)
(*                                getNearestFuture15Min                    *)
(*   src/lib/commute-service.ts   calculateOptimalDepartureTime,           *)
(*                                estimateTravelTime, mapTrafficCondition  *)
(*   src/app/api/routes/route.ts  POST                                     *)
(*                                                                         *)
(* Conventions.                                                            *)
(*  - An instant (a JS Date) is its getTime() value in milliseconds,       *)
(*    counted from local midnight of the day the run starts.  The time     *)
(*    zone of the process is `zone`: it may move its clocks once, on the   *)
(*    day after, so a local day has 23, 24 or 25 hours (or half an hour    *)
(*    more or less) and the local time of an instant is LocalTime.         *)
(*  - A JS string is the sequence of its characters, each a one-character  *)
(*    string.  null and undefined are the one-element sequences <<"null">> *)
(*    and <<"undefined">>, which no character sequence equals.             *)
(*  - An error message is the concatenation of the fixed pieces of its     *)
(*    literal, each one element, and of the interpolated values of its     *)
(*    template, character by character.                                    *)
(*  - The wall clock `now` is read by `new Date()`.  It advances by Tick   *)
(*    steps between the handler's steps.  The synchronous code between two *)
(*    awaits that reads the clock more than once is split at the reads     *)
(*    that the program's results depend on.                                *)
(***************************************************************************)
EXTENDS Integers, Sequences, FiniteSets, TLC

\* ---------------------------------------------------------------- bounds
\* how many times the clock is seen to advance during one invocation
MaxTicks == 1
\* invocations with a call budget up to MaxRichCalls get every sequence of
\* estimator answers; with a larger budget the estimator answers from
\* CoarseResponses and changes its answer, from one call to the next, at
\* most MaxSwitches times
MaxRichCalls == 4
MaxSwitches == 1

\* the longest list of speed-reading segments a provider answer carries
MaxSegments == 5

\* ----------------------------------------------------- program constants
MsPerSecond == 1000
MsPerMinute == 60000
MsPerHour == 3600000
MsPerDay == 86400000
PastToleranceMs == 60000
MinWindowMinutes == 15
SampleIntervalMinutes == 15
MaxCallsCap == 12

NoDate == -1

\* ------------------------------------------------------------ JS strings
Digits == <<"0", "1", "2", "3", "4", "5", "6", "7", "8", "9">>

IsDigit(c) == \E i \in 1..10 : Digits[i] = c

DigitValue(c) == (CHOOSE i \in 1..10 : Digits[i] = c) - 1

NullString == <<"null">>

UndefinedString == <<"undefined">>

\* Number("08") for a string of decimal digits
RECURSIVE NumberOfDigits(_)
NumberOfDigits(s) ==
  IF Len(s) = 0 THEN 0
  ELSE 10 * NumberOfDigits(SubSeq(s, 1, Len(s) - 1)) + DigitValue(s[Len(s)])

\* String(n) for an integer n >= 0, as characters
RECURSIVE StringOfNumber(_)
StringOfNumber(n) ==
  IF n < 10 THEN <<Digits[n + 1]>>
  ELSE Append(StringOfNumber(n \div 10), Digits[(n % 10) + 1])

\* message.includes(search).  A message is a sequence whose elements are
\* single characters, for text that comes from outside the code (a provider's
\* message, a number turned into text), and the fixed pieces of the code's
\* own string and template literals, each one element; none of those pieces
\* contains a text the code searches for, so a match is a run of characters.
includes(message, search) ==
  \E i \in 1..(Len(message) - Len(search) + 1) :
    \A j \in 1..Len(search) : message[i + j - 1] = search[j]

\* n.toString().padStart(2, "0") for 0 <= n <= 99
PadStart2(n) == <<Digits[(n \div 10) + 1], Digits[(n % 10) + 1]>>

\* the position of the first ":" of s, 0 when there is none
IndexOfColon(s) ==
  IF \E i \in 1..Len(s) : s[i] = ":"
  THEN CHOOSE i \in 1..Len(s) : s[i] = ":" /\ \A j \in 1..(i - 1) : s[j] # ":"
  ELSE 0

\* /^\d{1,2}:\d{2}$/.test(s)
MatchesTimeRegex(s) ==
  LET c == IndexOfColon(s) IN
  /\ c \in {2, 3}
  /\ Len(s) = c + 2
  /\ \A i \in 1..Len(s) : i # c => IsDigit(s[i])

\* !timeString
IsFalsyString(s) == s = NullString \/ s = UndefinedString \/ Len(s) = 0

\* ------------------------------------------------------------ time zone
VARIABLE zone                \* the time zone of the process

\* a zone that moves its clocks by `shift` at the instant `at`
ClockChange(at, shift) == [at |-> at, shift |-> shift]

\* a zone with a fixed offset
NoClockChange == ClockChange(NoDate, 0)

\* LocalTime(t) of ECMAScript: the local date and time of the instant t, in
\* milliseconds since local midnight of day 0
LocalTime(t) == IF zone.at = NoDate \/ t < zone.at THEN t ELSE t + zone.shift

\* UTC(t) of ECMAScript: the instant of a local date and time; a local time
\* that the clock change skips or repeats is read with the offset in force
\* before the change
UTC(local) ==
  IF zone.at = NoDate \/ local < zone.at THEN local
  ELSE IF local - zone.shift >= zone.at THEN local - zone.shift
  ELSE local

\* ------------------------------------------------------------ time-utils
StartOfDay(local) == local - (local % MsPerDay)

getHours(t) == (LocalTime(t) % MsPerDay) \div MsPerHour

getMinutes(t) == (LocalTime(t) % MsPerHour) \div MsPerMinute

\* the day of the instant t, counted from day 0 (getDate() up to the month)
getDate(t) == LocalTime(t) \div MsPerDay

\* date.setHours(hours, minutes, 0, 0) on a Date created at instant t
setHours(t, hours, minutes) ==
  UTC(StartOfDay(LocalTime(t)) + hours * MsPerHour + minutes * MsPerMinute)

\* date.setDate(day) on a Date at instant t: the same local time on that day
setDate(t, day) == UTC(day * MsPerDay + (LocalTime(t) % MsPerDay))

\* mutant: the ranges of the hour and the minute are not checked
parseTimeToDateNoRangeCheck(timeString, clock, clockAtCheck) ==
  IF IsFalsyString(timeString) \/ ~MatchesTimeRegex(timeString) THEN NoDate
  ELSE
    LET c == IndexOfColon(timeString)
        hours == NumberOfDigits(SubSeq(timeString, 1, c - 1))
        minutes == NumberOfDigits(SubSeq(timeString, c + 1, Len(timeString)))
        date == setHours(clock, hours, minutes)
    IN IF date < clockAtCheck THEN setDate(date, getDate(date) + 1) ELSE date

\* mutant: a time of day that has passed stays on the current day
parseTimeToDateSameDay(timeString, clock, clockAtCheck) ==
  IF IsFalsyString(timeString) \/ ~MatchesTimeRegex(timeString) THEN NoDate
  ELSE
    LET c == IndexOfColon(timeString)
        hours == NumberOfDigits(SubSeq(timeString, 1, c - 1))
        minutes == NumberOfDigits(SubSeq(timeString, c + 1, Len(timeString)))
        date == setHours(clock, hours, minutes)
    IN IF hours < 0 \/ hours > 23 \/ minutes < 0 \/ minutes > 59 THEN NoDate
       ELSE date

\* lines 39-65; clock is what new Date() returns at line 52 and clockAtCheck
\* what it returns at line 57
parseTimeToDate(timeString, clock, clockAtCheck) ==
  IF IsFalsyString(timeString) \/ ~MatchesTimeRegex(timeString) THEN NoDate
  ELSE
    LET c == IndexOfColon(timeString)
        hours == NumberOfDigits(SubSeq(timeString, 1, c - 1))
        minutes == NumberOfDigits(SubSeq(timeString, c + 1, Len(timeString)))
        date == setHours(clock, hours, minutes)
    IN IF hours < 0 \/ hours > 23 \/ minutes < 0 \/ minutes > 59 THEN NoDate
       ELSE IF date < clockAtCheck THEN setDate(date, getDate(date) + 1)
       ELSE date

\* how often parseTimeToDate(timeString) reads the clock
ClockReads(timeString) == IF parseTimeToDate(timeString, 0, 0) = NoDate THEN 0 ELSE 2

formatTimeForInput(date) == PadStart2(getHours(date)) \o <<":">> \o PadStart2(getMinutes(date))

\* mutant: the minutes are added as seconds
addMinutesAsSeconds(date, minutes) == date + minutes * MsPerSecond

addMinutes(date, minutes) == date + minutes * MsPerMinute

\* Math.round(x / d) for d > 0: halves round towards +infinity
MathRound(x, d) == (2 * x + d) \div (2 * d)

\* Math.ceil(x / d) for d > 0
MathCeil(x, d) == -((-x) \div d)

MathMin(a, b) == IF a < b THEN a ELSE b

\* mutant: the difference is taken from the end to the start
getTimeDifferenceInMinutesReversed(start, end) == MathRound(start - end, MsPerMinute)

getTimeDifferenceInMinutes(start, end) == MathRound(end - start, MsPerMinute)

\* lines 163-172, with now the instant new Date() returns
getNearestFuture15Min(clock) ==
  LET minutes == getMinutes(clock)
      minutesToAdd == 15 - (minutes % 15)
      futureTime == clock + minutesToAdd * MsPerMinute + MsPerSecond
  IN formatTimeForInput(futureTime)

\* ------------------------------------------- estimator (commute-service)
\* What fetch() on /api/routes hands to estimateTravelTime: either the
\* transport fails (fetch rejects) or an HTTP response arrives.
\*   status, statusText   the HTTP status line; the reason phrase is a string
\*                        of characters, <<>> when the line carries none
\*   isJson               the body parses as JSON
\*   jsonError            the message of the error response.json() rejects
\*                        with when the body does not parse (or cannot be
\*                        read to its end), <<>> when it parses
\*   error                body.error, <<>> when absent
\*   detailsMessage       body.details.error.message, <<>> when absent
\*   durationIsNumber     typeof body.durationInSeconds === 'number'
Response(transport, status, statusText, isJson, jsonError, error, detailsMessage, durationIsNumber, durationInSeconds, distanceInMeters, trafficCondition) ==
  [transport |-> transport, status |-> status, statusText |-> statusText,
   isJson |-> isJson, jsonError |-> jsonError, error |-> error,
   detailsMessage |-> detailsMessage,
   durationIsNumber |-> durationIsNumber, durationInSeconds |-> durationInSeconds,
   distanceInMeters |-> distanceInMeters, trafficCondition |-> trafficCondition]

OkResponse(durationInSeconds, distanceInMeters, trafficCondition) ==
  Response("ok", 200, <<"O", "K">>, TRUE, <<>>, <<>>, <<>>, TRUE,
           durationInSeconds, distanceInMeters, trafficCondition)

ErrorResponse(status, statusText, error) ==
  Response("ok", status, statusText, TRUE, <<>>, error, <<>>, FALSE, 0, 0, "")

\* an answer whose body is not JSON, or does not arrive whole; jsonError is
\* the message response.json() rejects with
NotJsonResponse(status, statusText, jsonError) ==
  Response("ok", status, statusText, FALSE, jsonError, <<>>, <<>>, FALSE, 0, 0, "")

NetworkFailure == Response("failed", 0, <<>>, FALSE, <<>>, <<>>, <<>>, FALSE, 0, 0, "")

NoRouteResponse ==
  ErrorResponse(404, <<"N", "o", "t", " ", "F", "o", "u", "n", "d">>,
    <<"No route found between these locations. Please check the addresses and try again.">>)

\* response.ok
ResponseOk(response) == response.status >= 200 /\ response.status <= 299

Returned(data) == [threw |-> FALSE, message |-> <<>>, data |-> data]

NoData == [durationInSeconds |-> 0, distanceInMeters |-> 0, trafficCondition |-> ""]

Threw(message) == [threw |-> TRUE, message |-> message, data |-> NoData]

\* mutant: a call that fails is answered with default route data
estimateTravelTimeWithFallback(response) ==
  IF response.transport = "failed" \/ ~ResponseOk(response)
  THEN Returned([durationInSeconds |-> 1800, distanceInMeters |-> 10000,
                 trafficCondition |-> "MODERATE"])
  ELSE IF ~response.isJson THEN Threw(response.jsonError)
  ELSE IF ~response.durationIsNumber \/ response.distanceInMeters = 0
    THEN Threw(<<"Received invalid data from routes API">>)
  ELSE Returned([durationInSeconds |-> response.durationInSeconds,
                 distanceInMeters |-> response.distanceInMeters,
                 trafficCondition |-> response.trafficCondition])

estimateTravelTime(response) ==
  IF response.transport = "failed" THEN Threw(<<"fetch failed">>)
  ELSE IF ~ResponseOk(response) THEN
    LET status == StringOfNumber(response.status)
        errorData ==
          IF response.isJson
          THEN [error |-> response.error, detailsMessage |-> response.detailsMessage]
          ELSE [error |-> <<"HTTP error: ">> \o status \o <<" ">> \o response.statusText,
                detailsMessage |-> <<>>]
        specificMessage ==
          IF errorData.detailsMessage # <<>> THEN errorData.detailsMessage
          ELSE IF errorData.error # <<>> THEN errorData.error
          ELSE response.statusText
        finalErrorMessage ==
          IF includes(specificMessage, status) THEN specificMessage
          ELSE specificMessage \o <<" (Status: ">> \o status \o <<")">>
    IN Threw(<<"Failed to get route information: ">> \o finalErrorMessage)
  ELSE IF ~response.isJson THEN Threw(response.jsonError)
  ELSE IF ~response.durationIsNumber \/ response.distanceInMeters = 0
    THEN Threw(<<"Received invalid data from routes API">>)
  ELSE Returned([durationInSeconds |-> response.durationInSeconds,
                 distanceInMeters |-> response.distanceInMeters,
                 trafficCondition |-> response.trafficCondition])

mapTrafficCondition(googleTrafficCondition) ==
  CASE googleTrafficCondition = "LIGHT" -> "Light"
    [] googleTrafficCondition = "MODERATE" -> "Moderate"
    [] googleTrafficCondition = "HEAVY" -> "Heavy"
    [] googleTrafficCondition \in {"SEVERE", "TRAFFIC_JAM"} -> "Very Heavy"
    [] OTHER -> "Moderate"

\* ------------------------------------------- routes adapter (api/routes)
\* A value of the JSON request body: a string (its characters), a number,
\* null, or undefined for a key that is absent.
JsonString(chars) == [type |-> "string", chars |-> chars, number |-> 0]

JsonNumber(number) == [type |-> "number", chars |-> <<>>, number |-> number]

JsonNull == [type |-> "null", chars |-> <<>>, number |-> 0]

JsonUndefined == [type |-> "undefined", chars |-> <<>>, number |-> 0]

\* !value
Falsy(value) ==
  \/ value.type \in {"null", "undefined"}
  \/ value.type = "string" /\ value.chars = <<>>
  \/ value.type = "number" /\ value.number = 0

\* WhiteSpace and LineTerminator of ECMAScript, what trim() and parseInt()
\* skip; a character a TLA+ string cannot hold is written by its code point
IsWhiteSpace(c) ==
  c \in { " ", "\t", "\n", "\r", "\f", "U+000B", "U+00A0", "U+1680", "U+2000", "U+2001",
          "U+2002", "U+2003", "U+2004", "U+2005", "U+2006", "U+2007", "U+2008", "U+2009",
          "U+200A", "U+2028", "U+2029", "U+202F", "U+205F", "U+3000", "U+FEFF" }

\* String.prototype.trim
RECURSIVE Trim(_)
Trim(chars) ==
  IF chars = <<>> THEN <<>>
  ELSE IF IsWhiteSpace(chars[1]) THEN Trim(Tail(chars))
  ELSE IF IsWhiteSpace(chars[Len(chars)]) THEN Trim(SubSeq(chars, 1, Len(chars) - 1))
  ELSE chars

\* lines 11 and 15: !value || typeof value !== 'string' || value.trim() === ''
AddressInvalid(value) == Falsy(value) \/ value.type # "string" \/ Trim(value.chars) = <<>>

\* line 19: !departureTime || typeof departureTime !== 'string'
DepartureTimeInvalid(value) == Falsy(value) \/ value.type # "string"

\* the digits of radix 16, in lower and in upper case
HexDigits ==
  <<"0", "1", "2", "3", "4", "5", "6", "7", "8", "9", "a", "b", "c", "d", "e", "f",
    "A", "B", "C", "D", "E", "F">>

\* c is a digit of the radix (10 or 16)
IsRadixDigit(c, radix) ==
  \E i \in 1..Len(HexDigits) : HexDigits[i] = c /\ (IF i > 16 THEN i - 7 ELSE i - 1) < radix

RadixDigitValue(c) ==
  LET i == CHOOSE k \in 1..Len(HexDigits) : HexDigits[k] = c
  IN IF i > 16 THEN i - 7 ELSE i - 1

\* the longest prefix of digits of the radix
RECURSIVE DigitPrefix(_, _)
DigitPrefix(chars, radix) ==
  IF chars = <<>> \/ ~IsRadixDigit(chars[1], radix) THEN <<>>
  ELSE <<chars[1]>> \o DigitPrefix(Tail(chars), radix)

\* the value of a string of digits of the radix
RECURSIVE RadixValue(_, _)
RadixValue(digits, radix) ==
  IF Len(digits) = 0 THEN 0
  ELSE radix * RadixValue(SubSeq(digits, 1, Len(digits) - 1), radix)
         + RadixDigitValue(digits[Len(digits)])

RECURSIVE TrimStart(_)
TrimStart(chars) ==
  IF chars # <<>> /\ IsWhiteSpace(chars[1]) THEN TrimStart(Tail(chars)) ELSE chars

\* Number.parseInt(string) without a radix: leading white space is skipped, a
\* sign is read, "0x" or "0X" selects radix 16, the longest prefix of digits
\* is the value, and there is no number (NaN) when that prefix is empty
ParseInt(chars) ==
  LET trimmed == TrimStart(chars)
      signed == trimmed # <<>> /\ trimmed[1] \in {"+", "-"}
      unsigned == IF signed THEN Tail(trimmed) ELSE trimmed
      hex == Len(unsigned) >= 2 /\ unsigned[1] = "0" /\ unsigned[2] \in {"x", "X"}
      radix == IF hex THEN 16 ELSE 10
      digits == DigitPrefix(IF hex THEN SubSeq(unsigned, 3, Len(unsigned)) ELSE unsigned, radix)
      sign == IF signed /\ trimmed[1] = "-" THEN -1 ELSE 1
  IN [isNumber |-> digits # <<>>,
      value |-> IF digits # <<>> THEN sign * RadixValue(digits, radix) ELSE 0]

\* the reason phrase on the status line of an answer of the handler, its
\* characters: the one node's HTTP server writes for the status
\* (http.STATUS_CODES), "unknown" for a code it has no phrase for.  The phrase of the provider's answer is the
\* provider's own (Upstream).
StatusText(status) ==
  CASE status = 100 -> <<"C", "o", "n", "t", "i", "n", "u", "e">>
    [] status = 101 -> <<"S", "w", "i", "t", "c", "h", "i", "n", "g", " ", "P", "r", "o", "t", "o", "c", "o", "l", "s">>
    [] status = 102 -> <<"P", "r", "o", "c", "e", "s", "s", "i", "n", "g">>
    [] status = 103 -> <<"E", "a", "r", "l", "y", " ", "H", "i", "n", "t", "s">>
    [] status = 200 -> <<"O", "K">>
    [] status = 201 -> <<"C", "r", "e", "a", "t", "e", "d">>
    [] status = 202 -> <<"A", "c", "c", "e", "p", "t", "e", "d">>
    [] status = 203 -> <<"N", "o", "n", "-", "A", "u", "t", "h", "o", "r", "i", "t", "a", "t", "i", "v", "e", " ", "I", "n", "f", "o", "r", "m", "a", "t", "i", "o", "n">>
    [] status = 204 -> <<"N", "o", " ", "C", "o", "n", "t", "e", "n", "t">>
    [] status = 205 -> <<"R", "e", "s", "e", "t", " ", "C", "o", "n", "t", "e", "n", "t">>
    [] status = 206 -> <<"P", "a", "r", "t", "i", "a", "l", " ", "C", "o", "n", "t", "e", "n", "t">>
    [] status = 207 -> <<"M", "u", "l", "t", "i", "-", "S", "t", "a", "t", "u", "s">>
    [] status = 208 -> <<"A", "l", "r", "e", "a", "d", "y", " ", "R", "e", "p", "o", "r", "t", "e", "d">>
    [] status = 226 -> <<"I", "M", " ", "U", "s", "e", "d">>
    [] status = 300 -> <<"M", "u", "l", "t", "i", "p", "l", "e", " ", "C", "h", "o", "i", "c", "e", "s">>
    [] status = 301 -> <<"M", "o", "v", "e", "d", " ", "P", "e", "r", "m", "a", "n", "e", "n", "t", "l", "y">>
    [] status = 302 -> <<"F", "o", "u", "n", "d">>
    [] status = 303 -> <<"S", "e", "e", " ", "O", "t", "h", "e", "r">>
    [] status = 304 -> <<"N", "o", "t", " ", "M", "o", "d", "i", "f", "i", "e", "d">>
    [] status = 305 -> <<"U", "s", "e", " ", "P", "r", "o", "x", "y">>
    [] status = 307 -> <<"T", "e", "m", "p", "o", "r", "a", "r", "y", " ", "R", "e", "d", "i", "r", "e", "c", "t">>
    [] status = 308 -> <<"P", "e", "r", "m", "a", "n", "e", "n", "t", " ", "R", "e", "d", "i", "r", "e", "c", "t">>
    [] status = 400 -> <<"B", "a", "d", " ", "R", "e", "q", "u", "e", "s", "t">>
    [] status = 401 -> <<"U", "n", "a", "u", "t", "h", "o", "r", "i", "z", "e", "d">>
    [] status = 402 -> <<"P", "a", "y", "m", "e", "n", "t", " ", "R", "e", "q", "u", "i", "r", "e", "d">>
    [] status = 403 -> <<"F", "o", "r", "b", "i", "d", "d", "e", "n">>
    [] status = 404 -> <<"N", "o", "t", " ", "F", "o", "u", "n", "d">>
    [] status = 405 -> <<"M", "e", "t", "h", "o", "d", " ", "N", "o", "t", " ", "A", "l", "l", "o", "w", "e", "d">>
    [] status = 406 -> <<"N", "o", "t", " ", "A", "c", "c", "e", "p", "t", "a", "b", "l", "e">>
    [] status = 407 -> <<"P", "r", "o", "x", "y", " ", "A", "u", "t", "h", "e", "n", "t", "i", "c", "a", "t", "i", "o", "n", " ", "R", "e", "q", "u", "i", "r", "e", "d">>
    [] status = 408 -> <<"R", "e", "q", "u", "e", "s", "t", " ", "T", "i", "m", "e", "o", "u", "t">>
    [] status = 409 -> <<"C", "o", "n", "f", "l", "i", "c", "t">>
    [] status = 410 -> <<"G", "o", "n", "e">>
    [] status = 411 -> <<"L", "e", "n", "g", "t", "h", " ", "R", "e", "q", "u", "i", "r", "e", "d">>
    [] status = 412 -> <<"P", "r", "e", "c", "o", "n", "d", "i", "t", "i", "o", "n", " ", "F", "a", "i", "l", "e", "d">>
    [] status = 413 -> <<"P", "a", "y", "l", "o", "a", "d", " ", "T", "o", "o", " ", "L", "a", "r", "g", "e">>
    [] status = 414 -> <<"U", "R", "I", " ", "T", "o", "o", " ", "L", "o", "n", "g">>
    [] status = 415 -> <<"U", "n", "s", "u", "p", "p", "o", "r", "t", "e", "d", " ", "M", "e", "d", "i", "a", " ", "T", "y", "p", "e">>
    [] status = 416 -> <<"R", "a", "n", "g", "e", " ", "N", "o", "t", " ", "S", "a", "t", "i", "s", "f", "i", "a", "b", "l", "e">>
    [] status = 417 -> <<"E", "x", "p", "e", "c", "t", "a", "t", "i", "o", "n", " ", "F", "a", "i", "l", "e", "d">>
    [] status = 418 -> <<"I", "'", "m", " ", "a", " ", "T", "e", "a", "p", "o", "t">>
    [] status = 421 -> <<"M", "i", "s", "d", "i", "r", "e", "c", "t", "e", "d", " ", "R", "e", "q", "u", "e", "s", "t">>
    [] status = 422 -> <<"U", "n", "p", "r", "o", "c", "e", "s", "s", "a", "b", "l", "e", " ", "E", "n", "t", "i", "t", "y">>
    [] status = 423 -> <<"L", "o", "c", "k", "e", "d">>
    [] status = 424 -> <<"F", "a", "i", "l", "e", "d", " ", "D", "e", "p", "e", "n", "d", "e", "n", "c", "y">>
    [] status = 425 -> <<"T", "o", "o", " ", "E", "a", "r", "l", "y">>
    [] status = 426 -> <<"U", "p", "g", "r", "a", "d", "e", " ", "R", "e", "q", "u", "i", "r", "e", "d">>
    [] status = 428 -> <<"P", "r", "e", "c", "o", "n", "d", "i", "t", "i", "o", "n", " ", "R", "e", "q", "u", "i", "r", "e", "d">>
    [] status = 429 -> <<"T", "o", "o", " ", "M", "a", "n", "y", " ", "R", "e", "q", "u", "e", "s", "t", "s">>
    [] status = 431 -> <<"R", "e", "q", "u", "e", "s", "t", " ", "H", "e", "a", "d", "e", "r", " ", "F", "i", "e", "l", "d", "s", " ", "T", "o", "o", " ", "L", "a", "r", "g", "e">>
    [] status = 451 -> <<"U", "n", "a", "v", "a", "i", "l", "a", "b", "l", "e", " ", "F", "o", "r", " ", "L", "e", "g", "a", "l", " ", "R", "e", "a", "s", "o", "n", "s">>
    [] status = 500 -> <<"I", "n", "t", "e", "r", "n", "a", "l", " ", "S", "e", "r", "v", "e", "r", " ", "E", "r", "r", "o", "r">>
    [] status = 501 -> <<"N", "o", "t", " ", "I", "m", "p", "l", "e", "m", "e", "n", "t", "e", "d">>
    [] status = 502 -> <<"B", "a", "d", " ", "G", "a", "t", "e", "w", "a", "y">>
    [] status = 503 -> <<"S", "e", "r", "v", "i", "c", "e", " ", "U", "n", "a", "v", "a", "i", "l", "a", "b", "l", "e">>
    [] status = 504 -> <<"G", "a", "t", "e", "w", "a", "y", " ", "T", "i", "m", "e", "o", "u", "t">>
    [] status = 505 -> <<"H", "T", "T", "P", " ", "V", "e", "r", "s", "i", "o", "n", " ", "N", "o", "t", " ", "S", "u", "p", "p", "o", "r", "t", "e", "d">>
    [] status = 506 -> <<"V", "a", "r", "i", "a", "n", "t", " ", "A", "l", "s", "o", " ", "N", "e", "g", "o", "t", "i", "a", "t", "e", "s">>
    [] status = 507 -> <<"I", "n", "s", "u", "f", "f", "i", "c", "i", "e", "n", "t", " ", "S", "t", "o", "r", "a", "g", "e">>
    [] status = 508 -> <<"L", "o", "o", "p", " ", "D", "e", "t", "e", "c", "t", "e", "d">>
    [] status = 509 -> <<"B", "a", "n", "d", "w", "i", "d", "t", "h", " ", "L", "i", "m", "i", "t", " ", "E", "x", "c", "e", "e", "d", "e", "d">>
    [] status = 510 -> <<"N", "o", "t", " ", "E", "x", "t", "e", "n", "d", "e", "d">>
    [] status = 511 -> <<"N", "e", "t", "w", "o", "r", "k", " ", "A", "u", "t", "h", "e", "n", "t", "i", "c", "a", "t", "i", "o", "n", " ", "R", "e", "q", "u", "i", "r", "e", "d">>
    [] OTHER -> <<"u", "n", "k", "n", "o", "w", "n">>

\* route.travelAdvisory?.speedReadingIntervals is undefined
NoIntervals == <<"undefined">>

\* mutant: a slow ratio of exactly one half already counts as heavy
TrafficConditionHalfIsHeavy(speedReadings) ==
  IF speedReadings = NoIntervals THEN "MODERATE"
  ELSE IF \E i \in 1..Len(speedReadings) : speedReadings[i] = "TRAFFIC_JAM" THEN "SEVERE"
  ELSE LET slowSegments == Cardinality({i \in 1..Len(speedReadings) : speedReadings[i] = "SLOW"})
           totalSegments == Len(speedReadings)
       IN IF totalSegments > 0
          THEN IF 2 * slowSegments >= totalSegments THEN "HEAVY"
               ELSE IF 5 * slowSegments > totalSegments THEN "MODERATE"
               ELSE "LIGHT"
          ELSE "MODERATE"

\* lines 111-144.  slowRatio = slowSegments / totalSegments is compared with
\* 0.5 and 0.2; a quotient of two small integers is the double nearest to the
\* exact ratio, so the comparisons are those of the exact ratio:
\* slowRatio > 0.5 iff 2 * slow > total, slowRatio > 0.2 iff 5 * slow > total.
TrafficCondition(speedReadings) ==
  IF speedReadings = NoIntervals THEN "MODERATE"
  ELSE IF \E i \in 1..Len(speedReadings) : speedReadings[i] = "TRAFFIC_JAM" THEN "SEVERE"
  ELSE LET slowSegments == Cardinality({i \in 1..Len(speedReadings) : speedReadings[i] = "SLOW"})
           totalSegments == Len(speedReadings)
       IN IF totalSegments > 0
          THEN IF 2 * slowSegments > totalSegments THEN "HEAVY"
               ELSE IF 5 * slowSegments > totalSegments THEN "MODERATE"
               ELSE "LIGHT"
          ELSE "MODERATE"

\* What fetch() on the provider hands to the handler.
\*   transport            "failed" when fetch rejects, "bodyFailed" when the
\*                        status line arrives and the read of the body
\*                        rejects, "none" while the provider has not answered
\*   status, statusText   the code and the reason phrase of the provider's
\*                        status line; the phrase is what the provider wrote,
\*                        its characters, <<>> when it wrote none
\*   isJson               the body parses as JSON
\*   isNull               the body is the JSON value null
\*   errorMessage         body.error.message, <<>> when absent
\*   text                 body.text of a JSON body, the raw body of an answer
\*                        that is not JSON; <<>> when absent or empty
\*   routes               body.routes, <<>> when absent or empty
Upstream(transport, status, statusText, isJson, isNull, errorMessage, text, routes) ==
  [transport |-> transport, status |-> status, statusText |-> statusText,
   isJson |-> isJson, isNull |-> isNull, errorMessage |-> errorMessage, text |-> text,
   routes |-> routes]

\* one element of body.routes; duration is UndefinedString and distanceMeters
\* is 0 when the field is absent
Route(duration, distanceMeters, speedReadingIntervals) ==
  [duration |-> duration, distanceMeters |-> distanceMeters,
   speedReadingIntervals |-> speedReadingIntervals]

\* NextResponse.json(body, { status }) as the caller's fetch() receives it.
\* The Response it builds takes a status from 200 to 599 only (RangeError
\* otherwise) and no body with a null-body status (101, 204, 205, 304:
\* TypeError); what is thrown is an answer of transport "threw" whose error
\* is the message thrown.
JsonError(status, error, detailsMessage) ==
  IF status < 200 \/ status > 599
  THEN Response("threw", status, <<>>, FALSE, <<>>,
                <<"init[\"status\"] must be in the range of 200 to 599, inclusive.">>,
                <<>>, FALSE, 0, 0, "")
  ELSE IF status \in {101, 204, 205, 304}
  THEN Response("threw", status, <<>>, FALSE, <<>>,
                <<"Response constructor: Invalid response status code ">>
                  \o StringOfNumber(status),
                <<>>, FALSE, 0, 0, "")
  ELSE Response("ok", status, StatusText(status), TRUE, <<>>, error, detailsMessage,
                FALSE, 0, 0, "")

\* what the handler did: whether it called fetch() on the provider, and its answer
PostAnswer(fetched, response) == [fetched |-> fetched, response |-> response]

\* lines 154-160
InternalServerError == JsonError(500, <<"Internal server error">>, <<>>)

ZERO_RESULTS == <<"Z", "E", "R", "O", "_", "R", "E", "S", "U", "L", "T", "S">>

NOT_FOUND == <<"N", "O", "T", "_", "F", "O", "U", "N", "D">>

INVALID_REQUEST == <<"I", "N", "V", "A", "L", "I", "D", "_", "R", "E", "Q", "U", "E", "S", "T">>

\* lines 62-91; errorData is null for the body null, and then the message is
\* the fallback of line 72
UpstreamErrorAnswer(upstream) ==
  LET status == StringOfNumber(upstream.status)
      errorMessage ==
        IF upstream.isJson /\ upstream.errorMessage # <<>> THEN upstream.errorMessage
        ELSE IF upstream.text # <<>> THEN upstream.text
        ELSE status \o <<" ">> \o upstream.statusText
  IN IF includes(errorMessage, ZERO_RESULTS) \/ includes(errorMessage, NOT_FOUND)
     THEN JsonError(404,
            <<"No route found between these locations. Please check the addresses and try again.">>,
            <<>>)
     ELSE IF includes(errorMessage, INVALID_REQUEST)
     THEN JsonError(400,
            <<"Invalid request. Please verify the addresses are valid and try again.">>, <<>>)
     ELSE JsonError(upstream.status,
            <<"Failed to fetch route data: ">> \o status \o <<" ">> \o upstream.statusText,
            IF upstream.isJson THEN upstream.errorMessage ELSE <<>>)

\* mutant: a route without a duration is answered as a trip of 1800 seconds
RouteAnswerAssumedDuration(upstream) ==
  IF ~upstream.isJson \/ upstream.isNull THEN InternalServerError
  ELSE IF upstream.routes = <<>>
  THEN JsonError(404,
         <<"No driving route found between these locations. Please check your addresses and try again.">>,
         <<>>)
  ELSE LET route == upstream.routes[1]
           seconds == ParseInt(SubSeq(route.duration, 1, Len(route.duration) - 1))
       IN IF route.duration \in {UndefinedString, <<>>}
          THEN Response("ok", 200, StatusText(200), TRUE, <<>>, <<>>, <<>>, TRUE, 1800,
                        route.distanceMeters, TrafficCondition(route.speedReadingIntervals))
          ELSE Response("ok", 200, StatusText(200), TRUE, <<>>, <<>>, <<>>,
                        seconds.isNumber,
                        seconds.value,
                        route.distanceMeters,
                        TrafficCondition(route.speedReadingIntervals))

\* lines 93-153.  response.json() rejects when the body is not JSON, and
\* data.routes of line 96 throws a TypeError when the body is null; the catch
\* of lines 154-160 answers both.
RouteAnswer(upstream) ==
  IF ~upstream.isJson \/ upstream.isNull THEN InternalServerError
  ELSE IF upstream.routes = <<>>
  THEN JsonError(404,
         <<"No driving route found between these locations. Please check your addresses and try again.">>,
         <<>>)
  ELSE LET route == upstream.routes[1]
           seconds == ParseInt(SubSeq(route.duration, 1, Len(route.duration) - 1))
       IN IF route.duration \in {UndefinedString, <<>>}
          THEN JsonError(500, <<"Route data is incomplete">>, <<>>)
          ELSE Response("ok", 200, StatusText(200), TRUE, <<>>, <<>>, <<>>,
                        seconds.isNumber,
                        seconds.value,
                        route.distanceMeters,
                        TrafficCondition(route.speedReadingIntervals))

\* mutant: the API key is checked before the request body
POSTKeyFirst(request, apiKey, upstream) ==
  LET answer ==
        IF ~request.parses \/ request.isNull THEN PostAnswer(FALSE, InternalServerError)
        ELSE IF apiKey \in {UndefinedString, <<>>}
        THEN PostAnswer(FALSE, JsonError(500, <<"Server configuration error: API key missing">>, <<>>))
        ELSE IF AddressInvalid(request.origin)
        THEN PostAnswer(FALSE, JsonError(400, <<"Origin address is missing or invalid">>, <<>>))
        ELSE IF AddressInvalid(request.destination)
        THEN PostAnswer(FALSE, JsonError(400, <<"Destination address is missing or invalid">>, <<>>))
        ELSE IF DepartureTimeInvalid(request.departureTime)
        THEN PostAnswer(FALSE, JsonError(400, <<"Departure time is missing or invalid">>, <<>>))
        ELSE IF upstream.transport \in {"failed", "bodyFailed"}
        THEN PostAnswer(TRUE, InternalServerError)
        ELSE IF ~ResponseOk(upstream) THEN PostAnswer(TRUE, UpstreamErrorAnswer(upstream))
        ELSE PostAnswer(TRUE, RouteAnswer(upstream))
  IN IF answer.response.transport = "threw"
     THEN PostAnswer(answer.fetched, InternalServerError)
     ELSE answer

\* lines 6-160: the handler of POST /api/routes, from the request to its
\* answer.  request.json() of line 8 rejects for a body that is not JSON, and
\* the destructuring of line 8 throws a TypeError for the body null; whatever
\* is thrown inside the try, also by NextResponse.json, is answered by the
\* catch of lines 154-160: a fetch that rejects (line 51) and a read of the
\* provider's body that rejects (response.text() of line 63, response.json()
\* of line 93) among them.
POST(request, apiKey, upstream) ==
  LET answer ==
        IF ~request.parses \/ request.isNull THEN PostAnswer(FALSE, InternalServerError)
        ELSE IF AddressInvalid(request.origin)
        THEN PostAnswer(FALSE, JsonError(400, <<"Origin address is missing or invalid">>, <<>>))
        ELSE IF AddressInvalid(request.destination)
        THEN PostAnswer(FALSE, JsonError(400, <<"Destination address is missing or invalid">>, <<>>))
        ELSE IF DepartureTimeInvalid(request.departureTime)
        THEN PostAnswer(FALSE, JsonError(400, <<"Departure time is missing or invalid">>, <<>>))
        ELSE IF apiKey \in {UndefinedString, <<>>}
        THEN PostAnswer(FALSE, JsonError(500, <<"Server configuration error: API key missing">>, <<>>))
        ELSE IF upstream.transport \in {"failed", "bodyFailed"}
        THEN PostAnswer(TRUE, InternalServerError)
        ELSE IF ~ResponseOk(upstream) THEN PostAnswer(TRUE, UpstreamErrorAnswer(upstream))
        ELSE PostAnswer(TRUE, RouteAnswer(upstream))
  IN IF answer.response.transport = "threw"
     THEN PostAnswer(answer.fetched, InternalServerError)
     ELSE answer

\* ---------------------------------------------- optimizer: pure helpers
DepartureOption(departure, arrival, routeInfo) ==
  [departureTime |-> formatTimeForInput(departure),
   arrivalTime |-> formatTimeForInput(arrival),
   durationInTraffic |-> routeInfo.durationInSeconds,
   trafficCondition |-> mapTrafficCondition(routeInfo.trafficCondition),
   distanceInMeters |-> routeInfo.distanceInMeters]

\* departureTimeOptions.reduce((best, current) =>
\*   current.durationInTraffic < best.durationInTraffic ? current : best, options[0])
RECURSIVE ReduceBest(_, _, _)
ReduceBest(options, i, best) ==
  IF i > Len(options) THEN best
  ELSE ReduceBest(options, i + 1,
         IF options[i].durationInTraffic < best.durationInTraffic THEN options[i] ELSE best)

\* mutant: among equal durations the last option wins
RECURSIVE ReduceBestLastWins(_, _, _)
ReduceBestLastWins(options, i, best) ==
  IF i > Len(options) THEN best
  ELSE ReduceBestLastWins(options, i + 1,
         IF options[i].durationInTraffic <= best.durationInTraffic THEN options[i] ELSE best)

OptimalOptionLastWins(options) == ReduceBestLastWins(options, 1, options[1])

OptimalOption(options) == ReduceBest(options, 1, options[1])

\* The clock during the sort: new Date() returns `first` for the first
\* `switch` reads of the sort and `last` for the reads after them.
SortClocks(switch, first, last) == [switch |-> switch, first |-> first, last |-> last]

\* what the read number `read` of the sort returns
ClockAtRead(read, clocks) == IF read <= clocks.switch THEN clocks.first ELSE clocks.last

\* the comparator handed to Array.prototype.sort (lines 132-143), called
\* after `reads` reads of the clock; each parseTimeToDate reads it twice
CompareOptions(a, b, reads, clocks) ==
  LET readsA == ClockReads(a.departureTime)
      dateA == parseTimeToDate(a.departureTime, ClockAtRead(reads + 1, clocks),
                               ClockAtRead(reads + 2, clocks))
      dateB == parseTimeToDate(b.departureTime, ClockAtRead(reads + readsA + 1, clocks),
                               ClockAtRead(reads + readsA + 2, clocks))
  IN IF dateA = NoDate /\ dateB = NoDate THEN 0
     ELSE IF dateA = NoDate THEN 1
     ELSE IF dateB = NoDate THEN -1
     ELSE dateA - dateB

\* the clock reads of one call of the comparator
CompareReads(a, b) == ClockReads(a.departureTime) + ClockReads(b.departureTime)

\* Array.prototype.sort of the runtime (V8, TimSort) on an array shorter than
\* 64 elements: the run at the start of the array is found and made
\* ascending, then the other elements are inserted by binary search.  A state
\* of the sort is the array and the number of clock reads made.  (A value is
\* named by drawing it from a one-element set, so that it is computed once.)
SortState(array, reads) == [array |-> array, reads |-> reads]

\* CountAndMakeRun, from the element at idx: the length of the run and the
\* reads made when the run ends
RECURSIVE CountRun(_, _, _, _, _)
CountRun(array, idx, isDescending, reads, clocks) ==
  IF idx > Len(array) THEN [runLength |-> idx - 1, reads |-> reads]
  ELSE CHOOSE run \in
         { IF (isDescending /\ order >= 0) \/ (~isDescending /\ order < 0)
           THEN [runLength |-> idx - 1, reads |-> readsAfter]
           ELSE CountRun(array, idx + 1, isDescending, readsAfter, clocks) :
             order \in {CompareOptions(array[idx], array[idx - 1], reads, clocks)},
             readsAfter \in {reads + CompareReads(array[idx], array[idx - 1])} } : TRUE

RECURSIVE Reverse(_)
Reverse(array) == IF array = <<>> THEN <<>> ELSE Append(Reverse(Tail(array)), array[1])

\* ReverseRange over the first runLength elements
ReverseRun(array, runLength) ==
  Reverse(SubSeq(array, 1, runLength)) \o SubSeq(array, runLength + 1, Len(array))

\* CountAndMakeRun on the whole array
CountAndMakeRun(array, clocks) ==
  CHOOSE made \in
    { [runLength |-> run.runLength,
       state |-> SortState(IF isDescending THEN ReverseRun(array, run.runLength) ELSE array,
                           run.reads)] :
        isDescending \in {CompareOptions(array[2], array[1], 0, clocks) < 0},
        run \in { CountRun(array, 3, CompareOptions(array[2], array[1], 0, clocks) < 0,
                           CompareReads(array[2], array[1]), clocks) } } : TRUE

\* the binary search of BinaryInsertionSort for the place of pivot in
\* array[left..right-1]: the place and the reads made
RECURSIVE BinarySearch(_, _, _, _, _, _)
BinarySearch(array, pivot, left, right, reads, clocks) ==
  IF left >= right THEN [left |-> left, reads |-> reads]
  ELSE CHOOSE found \in
         { IF order < 0 THEN BinarySearch(array, pivot, left, mid, readsAfter, clocks)
           ELSE BinarySearch(array, pivot, mid + 1, right, readsAfter, clocks) :
             mid \in {left + ((right - left) \div 2)},
             order \in {CompareOptions(pivot, array[left + ((right - left) \div 2)],
                                       reads, clocks)},
             readsAfter \in {reads + CompareReads(pivot, array[left + ((right - left) \div 2)])} } :
           TRUE

\* BinaryInsertionSort from the element at start to the end of the array: the
\* element at start is moved to the place found, the elements between shift up
RECURSIVE BinaryInsertionSort(_, _, _)
BinaryInsertionSort(state, start, clocks) ==
  IF start > Len(state.array) THEN state
  ELSE CHOOSE sorted \in
         { BinaryInsertionSort(inserted, start + 1, clocks) :
             inserted \in
               { SortState(SubSeq(state.array, 1, found.left - 1) \o <<state.array[start]>>
                             \o SubSeq(state.array, found.left, start - 1)
                             \o SubSeq(state.array, start + 1, Len(state.array)),
                           found.reads) :
                   found \in { BinarySearch(state.array, state.array[start], 1, start,
                                            state.reads, clocks) } } } : TRUE

\* options.sort(comparator), lines 132-143
SortOptions(options, clocks) ==
  IF Len(options) < 2 THEN options
  ELSE CHOOSE sorted \in
         { BinaryInsertionSort(run.state, run.runLength + 1, clocks).array :
             run \in {CountAndMakeRun(options, clocks)} } : TRUE

\* the reads of the sort after which the clock can be seen to have moved from
\* first to last; the sort of n options makes fewer than 4 * n * n reads, and
\* one choice stands for all when every option is parsed to the same instant
\* whenever the clock is read
SortSwitches(options, first, last) ==
  IF \A k \in 1..Len(options) :
       LET date == parseTimeToDate(options[k].departureTime, first, first) IN
         /\ parseTimeToDate(options[k].departureTime, first, last) = date
         /\ parseTimeToDate(options[k].departureTime, last, last) = date
  THEN {0}
  ELSE 0..(4 * Len(options) * Len(options))

NoResult ==
  [optimalDepartureTime |-> <<>>, estimatedArrivalTime |-> <<>>, durationInTraffic |-> 0,
   trafficCondition |-> "", distanceInMeters |-> 0, departureTimeOptions |-> <<>>]

BuildResult(options, clocks) ==
  LET optimalOption == OptimalOption(options) IN
  [optimalDepartureTime |-> optimalOption.departureTime,
   estimatedArrivalTime |-> optimalOption.arrivalTime,
   durationInTraffic |-> optimalOption.durationInTraffic,
   trafficCondition |-> optimalOption.trafficCondition,
   distanceInMeters |-> optimalOption.distanceInMeters,
   departureTimeOptions |-> SortOptions(options, clocks)]

\* ------------------------------------------------------- error messages
ErrInvalidEarliest(timeString) ==
  <<"Invalid earliest departure time format: ">> \o timeString \o <<". Please use HH:MM.">>

ErrInvalidLatest(timeString) ==
  <<"Invalid latest arrival time format: ">> \o timeString \o <<". Please use HH:MM.">>

ErrNotAfter == <<"Latest arrival time must be after earliest departure time.">>

ErrInPast == <<"Earliest departure time must be in the future.">>

ErrWindowTooShort ==
  <<"The remaining time window until latest arrival is too short to calculate options.">>

\* mutant: the message of line 114, without the last error
ErrAllFailedGeneric(errors, lastMessage) ==
  <<"Could not calculate valid departure times due to ">> \o StringOfNumber(errors)
    \o <<" API errors. Please check your addresses and try again.">>

ErrAllFailed(errors, lastMessage) ==
  <<"Could not calculate valid departure times due to ">> \o StringOfNumber(errors)
    \o <<" API errors. Last error: ">> \o lastMessage

ErrNoValidOptions ==
  <<"Could not calculate any valid departure times. Please check your addresses and try again.">>

\* mutant: equal instants pass the order check
ValidationErrorStrictOrder(earliest, latest, earliestDate, latestDate, clock) ==
  IF earliestDate = NoDate THEN ErrInvalidEarliest(earliest)
  ELSE IF latestDate = NoDate THEN ErrInvalidLatest(latest)
  ELSE IF latestDate < earliestDate THEN ErrNotAfter
  ELSE IF earliestDate <= clock - PastToleranceMs THEN ErrInPast
  ELSE IF getTimeDifferenceInMinutes(earliestDate, latestDate) < MinWindowMinutes
    THEN ErrWindowTooShort
  ELSE <<>>

\* mutant: the latest arrival is checked before the earliest departure
ValidationErrorLatestFirst(earliest, latest, earliestDate, latestDate, clock) ==
  IF latestDate = NoDate THEN ErrInvalidLatest(latest)
  ELSE IF earliestDate = NoDate THEN ErrInvalidEarliest(earliest)
  ELSE IF latestDate <= earliestDate THEN ErrNotAfter
  ELSE IF earliestDate <= clock - PastToleranceMs THEN ErrInPast
  ELSE IF getTimeDifferenceInMinutes(earliestDate, latestDate) < MinWindowMinutes
    THEN ErrWindowTooShort
  ELSE <<>>

\* mutant: the past check allows no processing time
ValidationErrorNoTolerance(earliest, latest, earliestDate, latestDate, clock) ==
  IF earliestDate = NoDate THEN ErrInvalidEarliest(earliest)
  ELSE IF latestDate = NoDate THEN ErrInvalidLatest(latest)
  ELSE IF latestDate <= earliestDate THEN ErrNotAfter
  ELSE IF earliestDate <= clock THEN ErrInPast
  ELSE IF getTimeDifferenceInMinutes(earliestDate, latestDate) < MinWindowMinutes
    THEN ErrWindowTooShort
  ELSE <<>>

\* the first failing check of lines 25-50, <<>> when all pass
ValidationError(earliest, latest, earliestDate, latestDate, clock) ==
  IF earliestDate = NoDate THEN ErrInvalidEarliest(earliest)
  ELSE IF latestDate = NoDate THEN ErrInvalidLatest(latest)
  ELSE IF latestDate <= earliestDate THEN ErrNotAfter
  ELSE IF earliestDate <= clock - PastToleranceMs THEN ErrInPast
  ELSE IF getTimeDifferenceInMinutes(earliestDate, latestDate) < MinWindowMinutes
    THEN ErrWindowTooShort
  ELSE <<>>

\* mutant: arrivals up to a sampling interval late are kept
ArrivesInTimeWithGrace(arrivalTime, latestDate) ==
  arrivalTime <= latestDate + SampleIntervalMinutes * MsPerMinute

\* mutant: an arrival exactly at the latest arrival counts as late
ArrivesInTimeStrict(arrivalTime, latestDate) == arrivalTime < latestDate

\* mutant: late arrivals are kept
ArrivesInTimeAlways(arrivalTime, latestDate) == TRUE

\* line 83: only options that arrive before the latest arrival time
ArrivesInTime(arrivalTime, latestDate) == arrivalTime <= latestDate

\* mutant: the error count is not looked at
ExhaustionErrorAlwaysApi(errors, lastMessage) == ErrAllFailed(errors, lastMessage)

\* lines 110-117: the error thrown when no option was recorded
ExhaustionError(errors, lastMessage) ==
  IF errors > 0 THEN ErrAllFailed(errors, lastMessage) ELSE ErrNoValidOptions

\* mutant: the budget is rounded down, so a last partial interval gets no sample
MaxApiCallsRoundedDown(windowMinutes) ==
  MathMin(windowMinutes \div SampleIntervalMinutes, MaxCallsCap)

MaxApiCalls(windowMinutes) ==
  MathMin(MathCeil(windowMinutes, SampleIntervalMinutes), MaxCallsCap)

\* --------------------------------------------------------------- inputs
At(h, m, sec) == h * MsPerHour + m * MsPerMinute + sec * MsPerSecond

T0800 == <<"0", "8", ":", "0", "0">>
T800 == <<"8", ":", "0", "0">>
T0810 == <<"0", "8", ":", "1", "0">>
T815 == <<"8", ":", "1", "5">>
T0900 == <<"0", "9", ":", "0", "0">>
T1105 == <<"1", "1", ":", "0", "5">>
T2345 == <<"2", "3", ":", "4", "5">>
T0000 == <<"0", "0", ":", "0", "0">>
T0030 == <<"0", "0", ":", "3", "0">>
T0130 == <<"0", "1", ":", "3", "0">>
T0230 == <<"0", "2", ":", "3", "0">>
T0315 == <<"0", "3", ":", "1", "5">>

ValidTimeStrings == {T0800, T0900}

MalformedTimeStrings ==
  { <<"2", "4", ":", "0", "0">>,      \* hour above 23
    <<"0", "8", ":", "6", "0">>,      \* minute above 59
    <<"0", "8", "-", "0", "0">>,      \* wrong separator
    <<"8", ":", "5">>,                \* one-digit minute
    <<"0", "8", ":">>,                \* no minute
    <<>>,                             \* empty
    NullString,
    UndefinedString }

TimeStrings == ValidTimeStrings \union MalformedTimeStrings

\* the clock when the optimizer is invoked
Nows == {At(7, 0, 0), At(7, 59, 59), At(8, 5, 0), At(23, 40, 0)}

ExtraTimeStrings == {T800, T815, T0810, T1105, T2345, T0000, T0030, T0130, T0230, T0315}

\* <<clock at invocation, earliestDeparture, latestArrival>>
Scenarios ==
  ({At(7, 59, 59)} \X TimeStrings \X TimeStrings)
    \union { <<At(7, 59, 59), T0800, T815>>,
             <<At(7, 59, 59), T815, T0900>>,
             <<At(7, 0, 0), T800, T815>>,        \* H:MM form
             <<At(7, 0, 0), T0800, T815>>,       \* one sample
             <<At(7, 0, 0), T0800, T1105>>,      \* more than 12 samples fit
             <<At(8, 5, 0), T0800, T0900>>,      \* earliest passed, latest not
             <<At(8, 5, 0), T0810, T0900>>,
             <<At(23, 40, 0), T815, T0900>>,     \* both passed
             <<At(23, 40, 0), T0800, T0810>>,
             <<At(23, 40, 0), T2345, T0030>>,    \* window across midnight
             <<At(23, 40, 0), T2345, T0000>> }

\* the clocks go forward or back by an hour, or by half an hour, at 02:00 of
\* the day after the invocation
ClockChangeAt == MsPerDay + 2 * MsPerHour

SpringForward == ClockChange(ClockChangeAt, MsPerHour)

FallBack == ClockChange(ClockChangeAt, -MsPerHour)

\* zones without a clock change, and with one of an hour or of half an hour
Zones ==
  { NoClockChange, SpringForward, FallBack,
    ClockChange(ClockChangeAt, 30 * MsPerMinute),
    ClockChange(ClockChangeAt, -(30 * MsPerMinute)) }

\* the invocations made in a zone whose clocks change the next day
ClockChangeScenarios ==
  { <<At(23, 40, 0), T0130, T0230>>,    \* to a time the change skips or repeats
    <<At(23, 40, 0), T0230, T0315>>,
    <<At(23, 40, 0), T0800, T815>>,     \* after the change
    <<At(8, 5, 0), T0800, T0900>> }

\* how far the clock moves in one Tick
ClockSteps == {45 * MsPerSecond, 61 * MsPerSecond}

\* how far the clock moves between two reads of one synchronous stretch of
\* the code (the two reads of parseTimeToDate, the reads of the sort)
ClockStepsWithin(ticksTaken) == IF ticksTaken < MaxTicks THEN {0} \union ClockSteps ELSE {0}

\* the message response.json() rejects with for a body that ends
\* before a JSON value does
UnexpectedEndOfJson ==
  <<"U", "n", "e", "x", "p", "e", "c", "t", "e", "d", " ", "e", "n", "d", " ", "o", "f", " ", "J", "S", "O", "N", " ", "i", "n", "p", "u", "t">>

EstimatorResponses ==
  { OkResponse(600, 8000, "LIGHT"),
    OkResponse(1500, 20000, "HEAVY"),
    OkResponse(3600, 50000, "SEVERE"),
    NoRouteResponse,
    NetworkFailure }

\* the answers given to invocations with a budget above MaxRichCalls
CoarseResponses ==
  { OkResponse(1500, 20000, "HEAVY"),
    NetworkFailure }

NoResponse == Response("none", 0, <<>>, FALSE, <<>>, <<>>, <<>>, FALSE, 0, 0, "")

\* the answers the environment may give to the next estimator call
MayAnswer(response, budget, last, changed) ==
  \/ budget <= MaxRichCalls
  \/ /\ response \in CoarseResponses
     /\ \/ last = NoResponse
        \/ response = last
        \/ changed < MaxSwitches

\* ---------------------------------------------------------------- state
VARIABLES
  now,                     \* the wall clock, what new Date() returns
  ticks,                   \* number of Tick steps taken
  parseClock,              \* the clock parseTimeToDate read for earliestDeparture
                           \* when it built the Date (time-utils.ts line 52)
  checkClock,              \* the clock it read when it compared (line 57)
  pc,                      \* where calculateOptimalDepartureTime stands
  earliestDeparture,       \* argument
  latestArrival,           \* argument
  earliestDepartureDate,
  latestArrivalDate,
  timeWindowMinutes,
  maxApiCalls,
  currentDepartureTime,
  apiCallCount,
  apiCallErrors,
  lastError,               \* lastError.message, <<>> for null
  departureTimeOptions,
  pending,                 \* departure instant of the awaited estimator call
  calls,                   \* history: the estimator calls made, in order, each
                           \* with its departure instant, the transport's answer
                           \* and how it settled
  lastResponse,            \* environment: the estimator's previous answer
  switches,                \* environment: how often its answer has changed
  transport,               \* environment: "idle", or what became of the awaited
                           \* call's request: "inFlight", "headers" once fetch
                           \* has resolved and the body is read, "lost" for good
  thrown,                  \* message of the rejection, <<>> when none
  utilCall,                \* the last call of a function used on its own: its
                           \* arguments and what it returned
  result                   \* the value returned

vars ==
  <<now, ticks, pc, earliestDeparture, latestArrival, earliestDepartureDate,
    latestArrivalDate, timeWindowMinutes, maxApiCalls, currentDepartureTime,
    apiCallCount, apiCallErrors, lastError, departureTimeOptions, pending,
    calls, lastResponse, switches, transport, thrown, utilCall, parseClock, checkClock, zone, result>>

\* no function has been called on its own
NoCall == [function |-> ""]

Init ==
  /\ now \in Nows
  /\ ticks = 0
  /\ pc = "idle"
  /\ earliestDeparture = <<>>
  /\ latestArrival = <<>>
  /\ earliestDepartureDate = NoDate
  /\ latestArrivalDate = NoDate
  /\ timeWindowMinutes = 0
  /\ maxApiCalls = 0
  /\ currentDepartureTime = NoDate
  /\ apiCallCount = 0
  /\ apiCallErrors = 0
  /\ lastError = <<>>
  /\ departureTimeOptions = <<>>
  /\ pending = NoDate
  /\ calls = <<>>
  /\ lastResponse = NoResponse
  /\ switches = 0
  /\ transport = "idle"
  /\ thrown = <<>>
  /\ utilCall = NoCall
  /\ parseClock = NoDate
  /\ checkClock = NoDate
  /\ zone \in Zones
  /\ result = NoResult

\* the clock advances while the handler runs
Tick(d) ==
  /\ pc \in {"parseLatest", "validate", "loop", "await"}
  /\ ticks < MaxTicks
  /\ now' = now + d
  /\ ticks' = ticks + 1
  /\ UNCHANGED <<pc, earliestDeparture, latestArrival, earliestDepartureDate,
                 latestArrivalDate, timeWindowMinutes, maxApiCalls,
                 currentDepartureTime, apiCallCount, apiCallErrors, lastError,
                 departureTimeOptions, pending, calls, lastResponse, switches,
                 thrown, result,
                 transport,
                 utilCall, parseClock, checkClock, zone>>

\* the call, and line 21: parse the earliest departure.  parseTimeToDate
\* reads the clock twice, and the clock may advance between the two reads.
Invoke(earliest, latest) ==
  /\ pc = "idle"
  /\ <<now, earliest, latest>> \in
       (IF zone = NoClockChange THEN Scenarios ELSE ClockChangeScenarios)
  /\ earliestDeparture' = earliest
  /\ latestArrival' = latest
  /\ \E d \in (IF ClockReads(earliest) = 0 THEN {0} ELSE ClockStepsWithin(ticks)) :
       /\ earliestDepartureDate' = parseTimeToDate(earliest, now, now + d)
       /\ checkClock' = now + d
       /\ now' = now + d
       /\ ticks' = IF d = 0 THEN ticks ELSE ticks + 1
  /\ parseClock' = now
  /\ pc' = "parseLatest"
  /\ UNCHANGED <<latestArrivalDate, timeWindowMinutes, maxApiCalls,
                 currentDepartureTime, apiCallCount, apiCallErrors, lastError,
                 departureTimeOptions, pending, calls, lastResponse, switches,
                 thrown, result,
                 transport,
                 utilCall, zone>>

\* line 22: parse the latest arrival, with two reads of the clock
ParseLatest ==
  /\ pc = "parseLatest"
  /\ \E d \in (IF ClockReads(latestArrival) = 0 THEN {0} ELSE ClockStepsWithin(ticks)) :
       /\ latestArrivalDate' = parseTimeToDate(latestArrival, now, now + d)
       /\ now' = now + d
       /\ ticks' = IF d = 0 THEN ticks ELSE ticks + 1
  /\ pc' = "validate"
  /\ UNCHANGED <<earliestDeparture, latestArrival, earliestDepartureDate,
                 timeWindowMinutes, maxApiCalls, currentDepartureTime, apiCallCount,
                 apiCallErrors, lastError, departureTimeOptions, pending, calls,
                 lastResponse, switches, thrown, result,
                 transport,
                 utilCall, parseClock, checkClock, zone>>

\* lines 24-68: the checks, the window and the call budget
Validate ==
  /\ pc = "validate"
  /\ LET error == ValidationError(earliestDeparture, latestArrival,
                                  earliestDepartureDate, latestArrivalDate, now)
         window == getTimeDifferenceInMinutes(earliestDepartureDate, latestArrivalDate)
     IN IF error # <<>>
        THEN /\ thrown' = error
             /\ pc' = "rejected"
             /\ UNCHANGED <<timeWindowMinutes, maxApiCalls, currentDepartureTime>>
        ELSE /\ timeWindowMinutes' = window
             /\ maxApiCalls' = MaxApiCalls(window)
             /\ currentDepartureTime' = earliestDepartureDate
             /\ pc' = "loop"
             /\ UNCHANGED thrown
  /\ UNCHANGED <<now, ticks, earliestDeparture, latestArrival, earliestDepartureDate,
                 latestArrivalDate, apiCallCount, apiCallErrors, lastError,
                 departureTimeOptions, pending, calls, lastResponse, switches,
                 result,
                 transport,
                 utilCall, parseClock, checkClock, zone>>

\* mutant: the budget test lets one call too many through
LoopGuardOffByOne ==
  currentDepartureTime <= latestArrivalDate /\ apiCallCount <= maxApiCalls

\* mutant: the first failed sample ends the search
LoopGuardAbortOnError ==
  currentDepartureTime <= latestArrivalDate /\ apiCallCount < maxApiCalls /\ apiCallErrors = 0

\* mutant: the search stops at the first option that meets the deadline
LoopGuardStopAtFirstOption ==
  /\ currentDepartureTime <= latestArrivalDate
  /\ apiCallCount < maxApiCalls
  /\ departureTimeOptions = <<>>

\* line 70
LoopGuard == currentDepartureTime <= latestArrivalDate /\ apiCallCount < maxApiCalls

\* mutant: the call is started but not awaited, the loop moves on at once
IssueCallNotAwaited ==
  /\ pc = "loop"
  /\ LoopGuard
  /\ calls' = Append(calls, [departure |-> currentDepartureTime, settled |-> FALSE,
                            routeInfo |-> Returned(NoData), response |-> NoResponse])
  /\ currentDepartureTime' = addMinutes(currentDepartureTime, SampleIntervalMinutes)
  /\ apiCallCount' = apiCallCount + 1
  /\ transport' = "inFlight"
  /\ UNCHANGED <<now, ticks, pc, earliestDeparture, latestArrival, earliestDepartureDate,
                 latestArrivalDate, timeWindowMinutes, maxApiCalls, apiCallErrors,
                 lastError, departureTimeOptions, pending, lastResponse, switches,
                 thrown, result,
                 utilCall, parseClock, checkClock, zone>>

\* lines 70-77: the loop continues and calls the estimator
IssueCall ==
  /\ pc = "loop"
  /\ LoopGuard
  /\ pending' = currentDepartureTime
  /\ calls' = Append(calls, [departure |-> currentDepartureTime, settled |-> FALSE,
                            routeInfo |-> Returned(NoData), response |-> NoResponse])
  /\ transport' = "inFlight"
  /\ pc' = "await"
  /\ UNCHANGED <<now, ticks, earliestDeparture, latestArrival, earliestDepartureDate,
                 latestArrivalDate, timeWindowMinutes, maxApiCalls,
                 currentDepartureTime, apiCallCount, apiCallErrors, lastError,
                 departureTimeOptions, lastResponse, switches, thrown, result,
                 utilCall, parseClock, checkClock, zone>>

\* lines 73-104 once estimateTravelTime has settled: the sample is recorded,
\* discarded or counted as an error, and the loop moves to the next candidate
EstimatorSettles(response) ==
  /\ LET routeInfo == estimateTravelTime(response)
         arrivalTime == currentDepartureTime + routeInfo.data.durationInSeconds * MsPerSecond
     IN IF routeInfo.threw
        THEN /\ apiCallErrors' = apiCallErrors + 1
             /\ lastError' = routeInfo.message
             /\ UNCHANGED departureTimeOptions
        ELSE /\ departureTimeOptions' =
                  IF ArrivesInTime(arrivalTime, latestArrivalDate)
                  THEN Append(departureTimeOptions,
                              DepartureOption(currentDepartureTime, arrivalTime, routeInfo.data))
                  ELSE departureTimeOptions
             /\ UNCHANGED <<apiCallErrors, lastError>>
  /\ currentDepartureTime' = addMinutes(currentDepartureTime, SampleIntervalMinutes)
  /\ apiCallCount' = apiCallCount + 1
  /\ pending' = NoDate
  /\ transport' = "idle"
  /\ calls' = [calls EXCEPT ![Len(calls)] =
                 [departure |-> currentDepartureTime, settled |-> TRUE,
                  routeInfo |-> estimateTravelTime(response), response |-> response]]
  /\ pc' = "loop"

\* line 174, the first await of estimateTravelTime: fetch rejects, and the
\* call settles through the catch of line 220, or fetch resolves with the
\* status line and the headers of a response whose body is still to be read
FetchSettles(response) ==
  /\ pc = "await"
  /\ transport = "inFlight"
  /\ MayAnswer(response, maxApiCalls, lastResponse, switches)
  /\ IF maxApiCalls <= MaxRichCalls
     THEN UNCHANGED <<lastResponse, switches>>
     ELSE /\ lastResponse' = response
          /\ switches' = IF lastResponse \in {NoResponse, response}
                         THEN switches ELSE switches + 1
  /\ IF response.transport = "failed"
     THEN EstimatorSettles(response)
     ELSE /\ transport' = "headers"
          /\ calls' = [calls EXCEPT ![Len(calls)].response = response]
          /\ UNCHANGED <<pc, currentDepartureTime, apiCallCount, apiCallErrors, lastError,
                         departureTimeOptions, pending>>
  /\ UNCHANGED <<now, ticks, earliestDeparture, latestArrival, earliestDepartureDate,
                 latestArrivalDate, timeWindowMinutes, maxApiCalls, thrown, result,
                 utilCall, parseClock, checkClock, zone>>

\* lines 190 and 211, the second await: response.json() settles, with the
\* body parsed or with the error of a body that is not JSON or broke off
BodySettles ==
  /\ pc = "await"
  /\ transport = "headers"
  /\ EstimatorSettles(calls[Len(calls)].response)
  /\ UNCHANGED <<now, ticks, earliestDeparture, latestArrival, earliestDepartureDate,
                 latestArrivalDate, timeWindowMinutes, maxApiCalls, thrown, result,
                 lastResponse, switches, utilCall, parseClock, checkClock, zone>>

\* lines 174-211: fetch is given no AbortSignal and no timer races it, so a
\* request the transport never answers, or a body that never ends, leaves
\* the await of line 73 pending
TransportNeverResponds ==
  /\ pc = "await"
  /\ transport \in {"inFlight", "headers"}
  /\ transport' = "lost"
  /\ UNCHANGED <<now, ticks, pc, earliestDeparture, latestArrival, earliestDepartureDate,
                 latestArrivalDate, timeWindowMinutes, maxApiCalls,
                 currentDepartureTime, apiCallCount, apiCallErrors, lastError,
                 departureTimeOptions, pending, calls, lastResponse, switches,
                 thrown, result,
                 utilCall, parseClock, checkClock, zone>>

\* lines 107-149: the loop has ended; reject or build the result.  The sort
\* of line 132 reads the clock in every call of its comparator, and the clock
\* may advance between two of these reads.
Finish ==
  /\ pc = "loop"
  /\ ~LoopGuard
  /\ IF Len(departureTimeOptions) = 0
     THEN /\ thrown' = ExhaustionError(apiCallErrors, lastError)
          /\ pc' = "rejected"
          /\ UNCHANGED <<now, ticks, result, departureTimeOptions>>
     ELSE \E d \in ClockStepsWithin(ticks) :
          \E switch \in SortSwitches(departureTimeOptions, now, now + d) :
            /\ result' = BuildResult(departureTimeOptions, SortClocks(switch, now, now + d))
            /\ departureTimeOptions' = result'.departureTimeOptions
            /\ now' = now + d
            /\ ticks' = IF d = 0 THEN ticks ELSE ticks + 1
            /\ pc' = "returned"
            /\ UNCHANGED thrown
  /\ UNCHANGED <<earliestDeparture, latestArrival, earliestDepartureDate,
                 latestArrivalDate, timeWindowMinutes, maxApiCalls,
                 currentDepartureTime, apiCallCount, apiCallErrors, lastError,
                 pending, calls, lastResponse, switches,
                 transport,
                 utilCall, parseClock, checkClock, zone>>

Next ==
  \/ \E d \in ClockSteps : Tick(d)
  \/ \E earliest \in TimeStrings \union ExtraTimeStrings,
        latest \in TimeStrings \union ExtraTimeStrings : Invoke(earliest, latest)
  \/ ParseLatest
  \/ Validate
  \/ IssueCall
  \/ \E response \in EstimatorResponses : FetchSettles(response)
  \/ BodySettles
  \/ TransportNeverResponds
  \/ Finish

Spec == Init /\ [][Next]_vars

\* the invocations made at 08:05
LiveInit == Init /\ now = At(8, 5, 0)

\* What the scheduling guarantees: the runtime runs every synchronous stretch
\* of the handler to its next await, and a request the transport still carries
\* is answered. Nothing is assumed of the clock or of a lost request.
LiveSpec ==
  /\ LiveInit
  /\ [][Next]_vars
  /\ WF_vars(ParseLatest)
  /\ WF_vars(Validate)
  /\ WF_vars(IssueCall)
  /\ WF_vars(\E response \in EstimatorResponses : FetchSettles(response))
  /\ WF_vars(BodySettles)
  /\ WF_vars(Finish)

\* ----------------------------------------- parseTimeToDate on its own
\* <<time string, hours, minutes>> of the valid inputs
ValidParseCases ==
  { <<T0800, 8, 0>>, <<T800, 8, 0>>, <<T0810, 8, 10>>, <<T815, 8, 15>>,
    <<T0900, 9, 0>>, <<T1105, 11, 5>>, <<T2345, 23, 45>>, <<T0000, 0, 0>>,
    <<T0030, 0, 30>>, << <<"0", ":", "0", "0">>, 0, 0 >>,
    << <<"2", "3", ":", "5", "9">>, 23, 59 >>, << <<"9", ":", "0", "5">>, 9, 5 >>,
    << <<"1", "9", ":", "5", "9">>, 19, 59 >>,
    <<T0130, 1, 30>>, <<T0230, 2, 30>>, <<T0315, 3, 15>>,
    << <<"2", ":", "0", "0">>, 2, 0 >> }

ParseStrings == {case[1] : case \in ValidParseCases} \union MalformedTimeStrings

\* clocks at, just before and just after the times parsed, on two days, and
\* around the instant at which the clocks of a zone change
ParseClocks ==
  { 0, 1, At(7, 59, 59), At(8, 0, 0), At(8, 0, 0) + 1, At(8, 15, 0) - 1,
    At(23, 40, 0), At(23, 59, 0), At(23, 59, 59) + 999,
    MsPerDay + At(0, 30, 0), MsPerDay + At(1, 45, 0), ClockChangeAt - 1,
    ClockChangeAt, MsPerDay + At(2, 15, 0), MsPerDay + At(3, 0, 0),
    MsPerDay + At(8, 0, 0), MsPerDay + At(8, 5, 0) }

ParseInit ==
  /\ now \in ParseClocks
  /\ ticks = 0
  /\ pc = "idle"
  /\ earliestDeparture = <<>>
  /\ latestArrival = <<>>
  /\ earliestDepartureDate = NoDate
  /\ latestArrivalDate = NoDate
  /\ timeWindowMinutes = 0
  /\ maxApiCalls = 0
  /\ currentDepartureTime = NoDate
  /\ apiCallCount = 0
  /\ apiCallErrors = 0
  /\ lastError = <<>>
  /\ departureTimeOptions = <<>>
  /\ pending = NoDate
  /\ calls = <<>>
  /\ lastResponse = NoResponse
  /\ switches = 0
  /\ transport = "idle"
  /\ thrown = <<>>
  /\ utilCall = NoCall
  /\ parseClock = NoDate
  /\ checkClock = NoDate
  /\ zone \in Zones
  /\ result = NoResult

\* one call of parseTimeToDate at the instant now; the clock may advance
\* between its two reads
ParseCall(timeString) ==
  /\ pc = "idle"
  /\ earliestDeparture' = timeString
  /\ \E d \in {0} \union ClockSteps :
       /\ earliestDepartureDate' = parseTimeToDate(timeString, now, now + d)
       /\ checkClock' = now + d
       /\ now' = now + d
       /\ ticks' = IF d = 0 THEN ticks ELSE ticks + 1
  /\ parseClock' = now
  /\ pc' = "parsed"
  /\ UNCHANGED <<latestArrival, latestArrivalDate, timeWindowMinutes,
                 maxApiCalls, currentDepartureTime, apiCallCount, apiCallErrors,
                 lastError, departureTimeOptions, pending, calls, lastResponse,
                 switches, transport, thrown, result,
                 utilCall, zone>>

ParseNext == \E timeString \in ParseStrings : ParseCall(timeString)

ParseSpec == ParseInit /\ [][ParseNext]_vars

\* ------------------------------------------- time-utils on their own
\* the clock at the hours 0, 8 and 23, and in the hour before the clocks of a
\* zone change, every minute, early and late in the minute, at the first and
\* the last millisecond of the second
UtilClocks ==
  { At(h, m, sec) + ms : h \in {0, 8, 23, 25}, m \in 0..59, sec \in {0, 1, 58, 59},
                         ms \in {0, 999} }

MinuteCounts == {0, 1, 14, 15, 16, 59, 60, 185, 1440, 10080}

UtilInit ==
  /\ now \in UtilClocks
  /\ ticks = 0
  /\ pc = "idle"
  /\ earliestDeparture = <<>>
  /\ latestArrival = <<>>
  /\ earliestDepartureDate = NoDate
  /\ latestArrivalDate = NoDate
  /\ timeWindowMinutes = 0
  /\ maxApiCalls = 0
  /\ currentDepartureTime = NoDate
  /\ apiCallCount = 0
  /\ apiCallErrors = 0
  /\ lastError = <<>>
  /\ departureTimeOptions = <<>>
  /\ pending = NoDate
  /\ calls = <<>>
  /\ lastResponse = NoResponse
  /\ switches = 0
  /\ transport = "idle"
  /\ thrown = <<>>
  /\ utilCall = NoCall
  /\ parseClock = NoDate
  /\ checkClock = NoDate
  /\ zone \in Zones
  /\ result = NoResult

\* addMinutes(date, minutes) on a Date at the instant now, then the difference
\* from date to the Date returned; line 146 builds a new Date and calls no
\* setter of date, whose instant afterwards is dateAfter
AddMinutesCall(minutes) ==
  /\ pc = "idle"
  /\ LET date == now
         returned == addMinutes(date, minutes)
     IN utilCall' = [function |-> "addMinutes", date |-> date, minutes |-> minutes,
                     returned |-> returned, dateAfter |-> date,
                     difference |-> getTimeDifferenceInMinutes(date, returned)]
  /\ pc' = "called"
  /\ UNCHANGED <<now, ticks, earliestDeparture, latestArrival, earliestDepartureDate,
                 latestArrivalDate, timeWindowMinutes, maxApiCalls,
                 currentDepartureTime, apiCallCount, apiCallErrors, lastError,
                 departureTimeOptions, pending, calls, lastResponse, switches,
                 transport, thrown, parseClock, checkClock, zone, result>>

\* getNearestFuture15Min() at the instant now
NearestFuture15MinCall ==
  /\ pc = "idle"
  /\ utilCall' = [function |-> "getNearestFuture15Min", returned |-> getNearestFuture15Min(now)]
  /\ pc' = "called"
  /\ UNCHANGED <<now, ticks, earliestDeparture, latestArrival, earliestDepartureDate,
                 latestArrivalDate, timeWindowMinutes, maxApiCalls,
                 currentDepartureTime, apiCallCount, apiCallErrors, lastError,
                 departureTimeOptions, pending, calls, lastResponse, switches,
                 transport, thrown, parseClock, checkClock, zone, result>>

UtilNext ==
  \/ \E minutes \in MinuteCounts : AddMinutesCall(minutes)
  \/ NearestFuture15MinCall

UtilSpec == UtilInit /\ [][UtilNext]_vars

\* ------------------------------------------ routes adapter on its own
\* POST /api/routes is called with request bodies, API keys and provider
\* answers of every kind; one invocation of the optimizer with a window of 15
\* minutes (a single sample) reaches the handler through estimateTravelTime.
GoodAddress == JsonString(<<"H", "o", "m", "e">>)

AddressValues ==
  { GoodAddress,
    JsonString(<<" ", "W", "o", "r", "k", " ">>),
    JsonString(<<>>),
    JsonString(<<" ", "\t">>),
    JsonString(<<"\r", "\f">>),
    JsonString(<<"U+00A0", "U+FEFF", "U+2028">>),
    JsonNull,
    JsonUndefined,
    JsonNumber(5) }

GoodDepartureTime == JsonString(<<"2025-01-01T08:00:00.000Z">>)

DepartureTimeValues ==
  { GoodDepartureTime,
    JsonString(<<" ">>),
    JsonString(<<>>),
    JsonNull,
    JsonUndefined,
    JsonNumber(1700000000) }

\* a request whose body is a JSON object with these fields
Request(origin, destination, departureTime) ==
  [parses |-> TRUE, isNull |-> FALSE, origin |-> origin, destination |-> destination,
   departureTime |-> departureTime]

\* a body that request.json() cannot parse
UnparsableRequest ==
  [parses |-> FALSE, isNull |-> FALSE, origin |-> JsonUndefined,
   destination |-> JsonUndefined, departureTime |-> JsonUndefined]

\* the body null: it parses, and has no field to read
NullRequest ==
  [parses |-> TRUE, isNull |-> TRUE, origin |-> JsonUndefined,
   destination |-> JsonUndefined, departureTime |-> JsonUndefined]

GoodRequest == Request(GoodAddress, GoodAddress, GoodDepartureTime)

Requests ==
  { Request(origin, destination, departureTime) :
      origin \in AddressValues, destination \in AddressValues,
      departureTime \in DepartureTimeValues }
    \union {UnparsableRequest, NullRequest}

GoodApiKey == <<"k", "e", "y">>

\* process.env.GOOGLE_MAPS_API_KEY: set, set to the empty string, not set
ApiKeys == {GoodApiKey, <<>>, UndefinedString}

\* the lists of speeds of up to MaxSegments segments
IntervalLists == UNION { [1..n -> {"NORMAL", "SLOW", "TRAFFIC_JAM"}] : n \in 0..MaxSegments }

D600s == <<"6", "0", "0", "s">>

RouteFound(speedReadingIntervals) ==
  Upstream("ok", 200, <<"O", "K">>, TRUE, FALSE, <<>>, <<>>,
           <<Route(D600s, 8000, speedReadingIntervals)>>)

\* a provider answer 200 OK whose first route has this duration
RouteLasting(duration) ==
  Upstream("ok", 200, <<"O", "K">>, TRUE, FALSE, <<>>, <<>>, <<Route(duration, 20000, NoIntervals)>>)

UpstreamFetchFails == Upstream("failed", 0, <<>>, FALSE, FALSE, <<>>, <<>>, <<>>)

\* texts of provider answers
ApiKeyNotValid ==
  <<"A", "P", "I", " ", "k", "e", "y", " ", "n", "o", "t", " ", "v", "a", "l", "i", "d", ".">>

RouteLookupZeroResults ==
  <<"R", "o", "u", "t", "e", " ", "l", "o", "o", "k", "u", "p", " ", "r", "e", "t", "u", "r", "n", "e", "d", " ", "Z", "E", "R", "O", "_", "R", "E", "S", "U", "L", "T", "S", " ", "f", "o", "r", " ", "t", "h", "e", " ", "p", "a", "i", "r">>

QuotaExceeded ==
  <<"Q", "u", "o", "t", "a", " ", "o", "f", " ", "4", "0", "4", "0", " ", "e", "x", "c", "e", "e", "d", "e", "d">>

UpstreamZeroResults == Upstream("ok", 404, <<"N", "o", "t", " ", "F", "o", "u", "n", "d">>, TRUE, FALSE, ZERO_RESULTS, <<>>, <<>>)

UpstreamNotFound == Upstream("ok", 404, <<"N", "o", "t", " ", "F", "o", "u", "n", "d">>, FALSE, FALSE, <<>>, NOT_FOUND, <<>>)

UpstreamNoRoutes == Upstream("ok", 200, <<"O", "K">>, TRUE, FALSE, <<>>, <<>>, <<>>)

RouteUpstreams == { RouteFound(intervals) : intervals \in IntervalLists \union {NoIntervals} }

OtherUpstreams ==
  { UpstreamFetchFails,
    UpstreamZeroResults,
    UpstreamNotFound,
    UpstreamNoRoutes,
    RouteLasting(UndefinedString),
    RouteLasting(<<>>),
    RouteLasting(<<"s">>),
    RouteLasting(<<"-", "5", "s">>),
    RouteLasting(<<"+", "5", "s">>),
    RouteLasting(<<" ", "6", "0", "0", "s">>),
    RouteLasting(<<"0", "x", "1", "A", "s">>),
    RouteLasting(<<"1", "2", ".", "5", "s">>),
    RouteLasting(<<"-", "s">>),
    Upstream("ok", 200, <<"O", "K">>, TRUE, FALSE, <<>>, <<>>, <<Route(D600s, 0, NoIntervals)>>),
    \* bodies that are not JSON, the body null, no body
    Upstream("ok", 200, <<"O", "K">>, FALSE, FALSE, <<>>, <<"<", "h", "t", "m", "l", ">">>, <<>>),
    Upstream("ok", 200, <<"O", "K">>, TRUE, TRUE, <<>>, <<>>, <<>>),
    Upstream("ok", 204, <<"N", "o", " ", "C", "o", "n", "t", "e", "n", "t">>, FALSE, FALSE, <<>>, <<>>, <<>>),
    Upstream("ok", 500, <<"I", "n", "t", "e", "r", "n", "a", "l", " ", "S", "e", "r", "v", "e", "r", " ", "E", "r", "r", "o", "r">>, TRUE, TRUE, <<>>, <<>>, <<>>),
    \* errors of the provider
    Upstream("ok", 400, <<"B", "a", "d", " ", "R", "e", "q", "u", "e", "s", "t">>, TRUE, FALSE, INVALID_REQUEST, <<>>, <<>>),
    Upstream("ok", 403, <<"F", "o", "r", "b", "i", "d", "d", "e", "n">>, TRUE, FALSE, ApiKeyNotValid, <<>>, <<>>),
    Upstream("ok", 404, <<"N", "o", "t", " ", "F", "o", "u", "n", "d">>, TRUE, FALSE, RouteLookupZeroResults, <<>>, <<>>),
    Upstream("ok", 400, <<"B", "a", "d", " ", "R", "e", "q", "u", "e", "s", "t">>, TRUE, FALSE, <<>>, RouteLookupZeroResults, <<>>),
    Upstream("ok", 401, <<"U", "n", "a", "u", "t", "h", "o", "r", "i", "z", "e", "d">>, TRUE, FALSE, <<>>, <<>>, <<>>),
    Upstream("ok", 429, <<"T", "o", "o", " ", "M", "a", "n", "y", " ", "R", "e", "q", "u", "e", "s", "t", "s">>, TRUE, FALSE, QuotaExceeded, <<>>, <<>>),
    Upstream("ok", 502, <<"B", "a", "d", " ", "G", "a", "t", "e", "w", "a", "y">>, FALSE, FALSE, <<>>, <<"<", "h", "t", "m", "l", ">">>, <<>>),
    Upstream("ok", 599, <<>>, FALSE, FALSE, <<>>, <<>>, <<>>),
    Upstream("ok", 500, <<"I", "n", "t", "e", "r", "n", "a", "l", " ", "S", "e", "r", "v", "e", "r", " ", "E", "r", "r", "o", "r">>, TRUE, FALSE, <<>>, <<>>, <<>>),
    Upstream("ok", 503, <<"S", "e", "r", "v", "i", "c", "e", " ", "U", "n", "a", "v", "a", "i", "l", "a", "b", "l", "e">>, FALSE, FALSE, <<>>, <<>>, <<>>),
    \* the status line arrives, the read of the body rejects
    Upstream("bodyFailed", 200, <<"O", "K">>, FALSE, FALSE, <<>>, <<>>, <<>>),
    Upstream("bodyFailed", 502, <<"B", "a", "d", " ", "G", "a", "t", "e", "w", "a", "y">>, FALSE, FALSE, <<>>, <<>>, <<>>),
    Upstream("bodyFailed", 404, NOT_FOUND, FALSE, FALSE, <<>>, <<>>, <<>>),
    \* statuses the handler cannot answer with
    Upstream("ok", 600, <<"C", "u", "s", "t", "o", "m">>, FALSE, FALSE, <<>>, <<>>, <<>>),
    Upstream("ok", 304, <<"N", "o", "t", " ", "M", "o", "d", "i", "f", "i", "e", "d">>, FALSE, FALSE, <<>>, <<>>, <<>>),
    \* reason phrases of the provider's own
    Upstream("ok", 503, ZERO_RESULTS, FALSE, FALSE, <<>>, <<>>, <<>>),
    Upstream("ok", 404, NOT_FOUND, FALSE, FALSE, <<>>, <<>>, <<>>),
    Upstream("ok", 400, INVALID_REQUEST, TRUE, FALSE, <<>>, <<>>, <<>>),
    Upstream("ok", 403, <<"K", "e", "y", " ", "R", "e", "j", "e", "c", "t", "e", "d">>, TRUE, FALSE, ApiKeyNotValid, <<>>, <<>>),
    Upstream("ok", 403, <<"K", "e", "y", " ", "R", "e", "j", "e", "c", "t", "e", "d">>, FALSE, FALSE, <<>>, <<>>, <<>>),
    Upstream("ok", 500, <<>>, FALSE, FALSE, <<>>, <<>>, <<>>) }

\* the provider before it has answered
NoUpstream == Upstream("none", 0, <<>>, FALSE, FALSE, <<>>, <<>>, <<>>)

\* the calls that reach the handler from the optimizer's sample
SampleCases ==
  { <<GoodRequest, GoodApiKey, RouteFound(NoIntervals)>>,
    <<GoodRequest, GoodApiKey, RouteFound(<<"NORMAL">>)>>,
    <<GoodRequest, GoodApiKey, RouteFound(<<"SLOW">>)>>,
    <<GoodRequest, GoodApiKey, RouteFound(<<"SLOW", "TRAFFIC_JAM">>)>>,
    <<Request(JsonString(<<>>), GoodAddress, GoodDepartureTime), GoodApiKey, RouteFound(NoIntervals)>>,
    <<Request(GoodAddress, JsonString(<<" ", "\t">>), GoodDepartureTime), GoodApiKey, RouteFound(NoIntervals)>>,
    <<GoodRequest, UndefinedString, RouteFound(NoIntervals)>>,
    <<GoodRequest, GoodApiKey, UpstreamZeroResults>>,
    <<GoodRequest, GoodApiKey,
      Upstream("ok", 429, <<"T", "o", "o", " ", "M", "a", "n", "y", " ", "R", "e", "q", "u", "e", "s", "t", "s">>, TRUE, FALSE, QuotaExceeded, <<>>, <<>>)>>,
    <<GoodRequest, GoodApiKey, UpstreamNoRoutes>>,
    <<GoodRequest, GoodApiKey, RouteLasting(UndefinedString)>>,
    <<GoodRequest, GoodApiKey, UpstreamFetchFails>>,
    <<GoodRequest, GoodApiKey,
      Upstream("bodyFailed", 502, <<"B", "a", "d", " ", "G", "a", "t", "e", "w", "a", "y">>, FALSE, FALSE, <<>>, <<>>, <<>>)>> }

\* what estimateTravelTime's fetch() can receive for the sample: the handler's
\* answer to one of the calls, no answer when the fetch itself fails, or the
\* answer of a handler whose trafficCondition is outside the four it computes,
\* an answer whose body is not JSON, or an error whose text holds the digits
\* of the status
SampleResponses ==
  { POST(case[1], case[2], case[3]).response : case \in SampleCases }
    \union { NetworkFailure,
             OkResponse(600, 8000, "TRAFFIC_JAM"),
             OkResponse(600, 8000, "UNKNOWN"),
             NotJsonResponse(200, <<"O", "K">>, UnexpectedEndOfJson),
             NotJsonResponse(502, <<"B", "a", "d", " ", "G", "a", "t", "e", "w", "a", "y">>, UnexpectedEndOfJson),
             ErrorResponse(404, <<"N", "o", "t", " ", "F", "o", "u", "n", "d">>, QuotaExceeded),
             \* answers without a message of their own, told by the reason phrase
             ErrorResponse(404, <<"E", "r", "r", "o", "r", " ", "4", "0", "4">>, <<>>),
             ErrorResponse(404, <<"N", "o", "t", " ", "F", "o", "u", "n", "d">>, <<>>),
             ErrorResponse(500, <<>>, <<>>) }

RouteInit == Init /\ now = At(7, 0, 0) /\ zone = NoClockChange

\* A request reaches the handler of a server whose
\* process.env.GOOGLE_MAPS_API_KEY is apiKey.  The handler runs to its first
\* await, request.json() of line 8, and hands control back; utilCall.stage is
\* the await it is suspended at.
PostCall(request, apiKey) ==
  /\ pc = "idle"
  /\ utilCall' = [function |-> "POST", stage |-> "request", request |-> request,
                  apiKey |-> apiKey, upstream |-> NoUpstream, fetched |-> FALSE,
                  response |-> NoResponse]
  /\ pc' = "called"
  /\ UNCHANGED <<now, ticks, earliestDeparture, latestArrival, earliestDepartureDate,
                 latestArrivalDate, timeWindowMinutes, maxApiCalls,
                 currentDepartureTime, apiCallCount, apiCallErrors, lastError,
                 departureTimeOptions, pending, calls, lastResponse, switches,
                 transport, thrown, parseClock, checkClock, zone, result>>

\* request.json() settles: the handler answers (lines 8-27, 154-160) or runs to
\* fetch() of line 51, which sends the request to the provider
RequestBodySettles ==
  /\ pc = "called"
  /\ utilCall.function = "POST"
  /\ utilCall.stage = "request"
  /\ LET answer == POST(utilCall.request, utilCall.apiKey, NoUpstream)
     IN utilCall' = IF answer.fetched
                    THEN [utilCall EXCEPT !.stage = "fetch", !.fetched = TRUE]
                    ELSE [utilCall EXCEPT !.stage = "answered", !.response = answer.response]
  /\ UNCHANGED <<pc, now, ticks, earliestDeparture, latestArrival, earliestDepartureDate,
                 latestArrivalDate, timeWindowMinutes, maxApiCalls,
                 currentDepartureTime, apiCallCount, apiCallErrors, lastError,
                 departureTimeOptions, pending, calls, lastResponse, switches,
                 transport, thrown, parseClock, checkClock, zone, result>>

\* fetch() of line 51 settles: it rejects and the catch answers, or it resolves
\* with the status line of the provider and the handler awaits the body
\* (response.text() of line 63, response.json() of line 93)
ProviderFetchSettles(upstream) ==
  /\ pc = "called"
  /\ utilCall.function = "POST"
  /\ utilCall.stage = "fetch"
  /\ utilCall' = IF upstream.transport = "failed"
                 THEN [utilCall EXCEPT !.stage = "answered", !.upstream = upstream,
                                       !.response = POST(utilCall.request, utilCall.apiKey,
                                                         upstream).response]
                 ELSE [utilCall EXCEPT !.stage = "body", !.upstream = upstream]
  /\ UNCHANGED <<pc, now, ticks, earliestDeparture, latestArrival, earliestDepartureDate,
                 latestArrivalDate, timeWindowMinutes, maxApiCalls,
                 currentDepartureTime, apiCallCount, apiCallErrors, lastError,
                 departureTimeOptions, pending, calls, lastResponse, switches,
                 transport, thrown, parseClock, checkClock, zone, result>>

\* the read of the provider's body settles, resolved or rejected, and the
\* handler answers (lines 62-160)
ProviderBodySettles ==
  /\ pc = "called"
  /\ utilCall.function = "POST"
  /\ utilCall.stage = "body"
  /\ utilCall' = [utilCall EXCEPT !.stage = "answered",
                                  !.response = POST(utilCall.request, utilCall.apiKey,
                                                    utilCall.upstream).response]
  /\ UNCHANGED <<pc, now, ticks, earliestDeparture, latestArrival, earliestDepartureDate,
                 latestArrivalDate, timeWindowMinutes, maxApiCalls,
                 currentDepartureTime, apiCallCount, apiCallErrors, lastError,
                 departureTimeOptions, pending, calls, lastResponse, switches,
                 transport, thrown, parseClock, checkClock, zone, result>>

RouteNext ==
  \/ \E request \in Requests, apiKey \in ApiKeys : PostCall(request, apiKey)
  \/ RequestBodySettles
  \/ \E upstream \in RouteUpstreams \union OtherUpstreams : ProviderFetchSettles(upstream)
  \/ ProviderBodySettles
  \/ Invoke(T0800, T815)
  \/ ParseLatest
  \/ Validate
  \/ IssueCall
  \/ \E response \in SampleResponses : FetchSettles(response)
  \/ BodySettles
  \/ Finish

RouteSpec == RouteInit /\ [][RouteNext]_vars

\* ============================================================ properties
Done == pc \in {"returned", "rejected"}

\* the checks of lines 25-50 have passed
Accepted == currentDepartureTime # NoDate

\* minutes from the earliest-departure instant to the latest-arrival instant
WindowMinutes == (latestArrivalDate - earliestDepartureDate) \div MsPerMinute

CallFailed(i) == calls[i].settled /\ calls[i].routeInfo.threw

CallSucceeded(i) == calls[i].settled /\ ~calls[i].routeInfo.threw

\* arrival of call i: candidate + duration
CallArrival(i) == calls[i].departure + calls[i].routeInfo.data.durationInSeconds * 1000

\* call i succeeded and arrives no later than the latest arrival
CallViable(i) == CallSucceeded(i) /\ CallArrival(i) <= latestArrivalDate

EndsWith(message, suffix) ==
  /\ Len(suffix) <= Len(message)
  /\ SubSeq(message, Len(message) - Len(suffix) + 1, Len(message)) = suffix

\* C1: an accepted invocation with a window of W minutes (W >= 15) has issued at
\* most min(ceil(W/15), 12) estimator calls, at every moment and whatever the
\* calls returned.
C1_CallBudget ==
  Accepted =>
    /\ WindowMinutes >= 15
    /\ Len(calls) <= 12
    /\ Len(calls) >= 1 => 15 * (Len(calls) - 1) < WindowMinutes

C1_Witness ==
  /\ Done /\ Accepted
  /\ WindowMinutes > 180
  /\ Len(calls) = 12
  /\ \E i, j \in 1..Len(calls) : CallFailed(i) /\ CallSucceeded(j)

\* C2: when both times parse and the latest-arrival instant is not after the
\* earliest-departure instant, the invocation is rejected with the "must be
\* after" error and has issued no estimator call.
C2_NotAfterRejects ==
  ( /\ pc \notin {"idle", "parseLatest", "validate"}
    /\ earliestDepartureDate # NoDate
    /\ latestArrivalDate # NoDate
    /\ latestArrivalDate <= earliestDepartureDate )
  => (pc = "rejected" /\ thrown = ErrNotAfter /\ Len(calls) = 0)

C2_Witness ==
  /\ pc = "rejected"
  /\ earliestDepartureDate # NoDate
  /\ latestArrivalDate = earliestDepartureDate
  /\ thrown = ErrNotAfter
  /\ Len(calls) = 0

\* the five validation failures of the claim, in its order; 0 when none
C3_FirstFailure ==
  IF earliestDeparture \in MalformedTimeStrings THEN 1
  ELSE IF latestArrival \in MalformedTimeStrings THEN 2
  ELSE IF latestArrivalDate <= earliestDepartureDate THEN 3
  ELSE IF earliestDepartureDate <= now - 60000 THEN 4
  ELSE IF WindowMinutes < 15 THEN 5
  ELSE 0

C3_Messages(failure) ==
  CASE failure = 1 -> {ErrInvalidEarliest(t) : t \in TimeStrings \union ExtraTimeStrings}
    [] failure = 2 -> {ErrInvalidLatest(t) : t \in TimeStrings \union ExtraTimeStrings}
    [] failure = 3 -> {ErrNotAfter}
    [] failure = 4 -> {ErrInPast}
    [] failure = 5 -> {ErrWindowTooShort}

\* C3: the step that validates rejects exactly when one of the five checks
\* fails, with the message of the first failing check in the order malformed
\* earliest, malformed latest, not after, in the past, window too short; that
\* message is none of the messages of the other four checks, and no estimator
\* call has been issued.
C3_ValidationOrder ==
  [][ (pc = "validate" /\ pc' # "validate") =>
        IF C3_FirstFailure = 0 THEN pc' = "loop"
        ELSE /\ pc' = "rejected"
             /\ Len(calls') = 0
             /\ thrown' \in C3_Messages(C3_FirstFailure)
             /\ C3_FirstFailure = 1 => EndsWith(SubSeq(thrown', 1, Len(thrown') - 1), earliestDeparture)
             /\ C3_FirstFailure = 2 => EndsWith(SubSeq(thrown', 1, Len(thrown') - 1), latestArrival)
             /\ \A other \in (1..5) \ {C3_FirstFailure} : thrown' \notin C3_Messages(other)
    ]_vars

C3_Witness ==
  /\ pc = "rejected"
  /\ earliestDeparture \in MalformedTimeStrings
  /\ latestArrival \in MalformedTimeStrings
  /\ earliestDeparture # latestArrival
  /\ thrown = ErrInvalidEarliest(earliestDeparture)
  /\ Len(calls) = 0

\* C4: when every estimator call of a finished invocation failed, the
\* invocation is rejected with the aggregate error, whose message contains the
\* number of calls issued and ends with the message of the last failure.
C4_AllFailedAggregate ==
  ( /\ Done
    /\ Len(calls) >= 1
    /\ \A i \in 1..Len(calls) : CallFailed(i) )
  => /\ pc = "rejected"
     /\ thrown[1] = "Could not calculate valid departure times due to "
     /\ SubSeq(thrown, 2, 1 + Len(StringOfNumber(Len(calls)))) = StringOfNumber(Len(calls))
     /\ Len(calls[Len(calls)].routeInfo.message) >= 1
     /\ EndsWith(thrown, <<" API errors. Last error: ">> \o calls[Len(calls)].routeInfo.message)

C4_Witness ==
  /\ pc = "rejected"
  /\ Len(calls) >= 2
  /\ \A i \in 1..Len(calls) : CallFailed(i)
  /\ calls[1].routeInfo.message # calls[Len(calls)].routeInfo.message

\* C5: when every estimator call of a finished invocation succeeded and every
\* arrival is after the latest arrival, the invocation is rejected with the "no
\* valid options" error: one literal message, with no count and no underlying
\* error in it, different from the aggregate error of the all-failed case.
C5_AllLateNoValidOptions ==
  ( /\ Done
    /\ Len(calls) >= 1
    /\ \A i \in 1..Len(calls) : CallSucceeded(i) /\ CallArrival(i) > latestArrivalDate )
  => /\ pc = "rejected"
     /\ thrown = <<"Could not calculate any valid departure times. Please check your addresses and try again.">>
     /\ thrown[1] # "Could not calculate valid departure times due to "
     /\ \A n \in 0..12 : ~includes(thrown, StringOfNumber(n))

C5_Witness ==
  /\ pc = "rejected"
  /\ Len(calls) >= 2
  /\ \A i \in 1..Len(calls) : CallSucceeded(i) /\ CallArrival(i) > latestArrivalDate

ViableCalls == {i \in 1..Len(calls) : CallViable(i)}

\* C6: a failed estimator call does not end the search, and a finished
\* invocation in which some call succeeded in time has returned a result whose
\* options are exactly the calls that succeeded and met the deadline; the loop
\* ends only when the budget or the window is used up.
C6_FailuresTolerated ==
  (Done /\ Accepted) =>
    /\ ViableCalls # {} =>
         /\ pc = "returned"
         /\ Len(result.departureTimeOptions) = Cardinality(ViableCalls)
         /\ \A i \in ViableCalls :
              \E k \in 1..Len(result.departureTimeOptions) :
                /\ result.departureTimeOptions[k].departureTime
                     = formatTimeForInput(calls[i].departure)
                /\ result.departureTimeOptions[k].durationInTraffic
                     = calls[i].routeInfo.data.durationInSeconds
    /\ (\E i \in 1..Len(calls) : CallFailed(i)) =>
         \/ Len(calls) = 12
         \/ 15 * Len(calls) >= WindowMinutes
         \/ earliestDepartureDate + Len(calls) * 15 * 60000 > latestArrivalDate

C6_Witness ==
  /\ pc = "returned"
  /\ earliestDeparture = T0800 /\ latestArrival = T0900
  /\ Len(calls) = 4
  /\ CallFailed(1) /\ CallFailed(2) /\ CallViable(3) /\ CallViable(4)
  /\ Len(result.departureTimeOptions) = 2
  /\ result.departureTimeOptions[1].departureTime = <<"0", "8", ":", "3", "0">>
  /\ result.departureTimeOptions[2].departureTime = <<"0", "8", ":", "4", "5">>

\* C7: the optimal fields of a returned result are those of a call that
\* succeeded in time and whose duration is minimal among such calls, the one
\* with the earliest departure instant among those of minimal duration.
C7_OptimalIsMinimal ==
  pc = "returned" =>
    \E i \in ViableCalls :
      /\ result.optimalDepartureTime = formatTimeForInput(calls[i].departure)
      /\ result.estimatedArrivalTime = formatTimeForInput(CallArrival(i))
      /\ result.durationInTraffic = calls[i].routeInfo.data.durationInSeconds
      /\ result.trafficCondition = mapTrafficCondition(calls[i].routeInfo.data.trafficCondition)
      /\ result.distanceInMeters = calls[i].routeInfo.data.distanceInMeters
      /\ \A j \in ViableCalls :
           \/ calls[i].routeInfo.data.durationInSeconds < calls[j].routeInfo.data.durationInSeconds
           \/ /\ calls[i].routeInfo.data.durationInSeconds = calls[j].routeInfo.data.durationInSeconds
              /\ calls[i].departure <= calls[j].departure

C7_Witness ==
  /\ pc = "returned"
  /\ \E k, i, j \in ViableCalls :
       /\ k < i /\ i < j
       /\ calls[k].routeInfo.data.durationInSeconds > calls[i].routeInfo.data.durationInSeconds
       /\ calls[j].routeInfo.data.durationInSeconds = calls[i].routeInfo.data.durationInSeconds
       /\ result.durationInTraffic = calls[i].routeInfo.data.durationInSeconds
       /\ result.optimalDepartureTime = formatTimeForInput(calls[i].departure)

\* the k-th call, in the order of the sampled instants, that succeeded in time
ViableCall(k) ==
  CHOOSE i \in ViableCalls : Cardinality({j \in ViableCalls : j < i}) = k - 1

\* C8: the options of a returned result are in ascending order of the instants
\* at which their candidates were sampled, whatever the clock shows when the
\* list is sorted: the k-th option is the one recorded for the k-th of the
\* calls that succeeded in time.
C8_SortedBySampledInstant ==
  pc = "returned" =>
    /\ Len(result.departureTimeOptions) = Cardinality(ViableCalls)
    /\ \A k \in 1..Len(result.departureTimeOptions) :
         LET i == ViableCall(k) IN
           /\ result.departureTimeOptions[k].departureTime = formatTimeForInput(calls[i].departure)
           /\ result.departureTimeOptions[k].durationInTraffic
                = calls[i].routeInfo.data.durationInSeconds

\* the scenario of C9 and C10: clock fixed before 08:00, window 08:00 to 09:00,
\* every estimator call returns 1500 s
FixedClockScenario ==
  /\ Done
  /\ ticks = 0
  /\ now < 8 * 3600 * 1000
  /\ earliestDeparture = <<"0", "8", ":", "0", "0">>
  /\ latestArrival = <<"0", "9", ":", "0", "0">>
  /\ \A i \in 1..Len(calls) :
       CallSucceeded(i) /\ calls[i].routeInfo.data.durationInSeconds = 1500

\* C9: in that scenario exactly four estimator calls are issued, for 08:00,
\* 08:15, 08:30 and 08:45 in this order, and the result has optimal departure
\* "08:00" and duration 1500 s.
C9_FourSamplesOptimalFirst ==
  FixedClockScenario =>
    /\ pc = "returned"
    /\ Len(calls) = 4
    /\ \A i \in 1..4 : calls[i].departure = (8 * 60 + 15 * (i - 1)) * 60000
    /\ [i \in 1..4 |-> formatTimeForInput(calls[i].departure)]
         = << <<"0", "8", ":", "0", "0">>, <<"0", "8", ":", "1", "5">>,
              <<"0", "8", ":", "3", "0">>, <<"0", "8", ":", "4", "5">> >>
    /\ result.optimalDepartureTime = <<"0", "8", ":", "0", "0">>
    /\ result.durationInTraffic = 1500

C9_Witness ==
  /\ FixedClockScenario
  /\ Len(calls) = 4
  /\ result.optimalDepartureTime = <<"0", "8", ":", "0", "0">>

\* C10 as claimed: in that scenario all four candidates arrive no later than
\* 09:00 and the returned list has four entries.
C10_AllFourRecorded ==
  FixedClockScenario =>
    /\ \A i \in 1..Len(calls) : CallArrival(i) <= latestArrivalDate
    /\ Len(result.departureTimeOptions) = 4

\* C10 as amended: in that scenario the candidates 08:00, 08:15 and 08:30 arrive
\* at 08:25, 08:40 and 08:55 and are recorded, the candidate 08:45 arrives at
\* 09:10, after 09:00, and is discarded, and the returned list has the three
\* entries 08:00, 08:15, 08:30.
C10_ThreeRecorded ==
  FixedClockScenario =>
    /\ Len(calls) = 4
    /\ \A i \in 1..3 : CallArrival(i) <= latestArrivalDate
    /\ CallArrival(4) = (9 * 60 + 10) * 60000
    /\ CallArrival(4) > latestArrivalDate
    /\ [k \in 1..Len(result.departureTimeOptions) |->
          result.departureTimeOptions[k].departureTime]
         = << <<"0", "8", ":", "0", "0">>, <<"0", "8", ":", "1", "5">>,
              <<"0", "8", ":", "3", "0">> >>
    /\ [k \in 1..Len(result.departureTimeOptions) |->
          result.departureTimeOptions[k].arrivalTime]
         = << <<"0", "8", ":", "2", "5">>, <<"0", "8", ":", "4", "0">>,
              <<"0", "8", ":", "5", "5">> >>

C10_Witness ==
  /\ FixedClockScenario
  /\ pc = "returned"
  /\ Len(result.departureTimeOptions) = 3
  /\ ~CallViable(4)

\* the scenario of C11: clock fixed before 08:00, window 08:00 to 09:00, every
\* estimator call returns 3600 s
LongTripScenario ==
  /\ Done
  /\ ticks = 0
  /\ now < 8 * 3600 * 1000
  /\ earliestDeparture = <<"0", "8", ":", "0", "0">>
  /\ latestArrival = <<"0", "9", ":", "0", "0">>
  /\ \A i \in 1..Len(calls) :
       CallSucceeded(i) /\ calls[i].routeInfo.data.durationInSeconds = 3600

\* C11 as claimed: in that scenario every candidate's arrival exceeds 09:00, no
\* option is recorded and the invocation is rejected with the "no valid
\* options" error.
C11_AllLateRejects ==
  LongTripScenario =>
    /\ \A i \in 1..Len(calls) : CallArrival(i) > latestArrivalDate
    /\ Len(departureTimeOptions) = 0
    /\ pc = "rejected"
    /\ thrown = ErrNoValidOptions

\* C11 as amended: in that scenario the candidate 08:00 arrives at 09:00
\* exactly, which is not after the latest arrival, and is recorded; the
\* candidates 08:15, 08:30 and 08:45 arrive after 09:00 and are discarded; the
\* invocation returns a result whose only option, and optimum, is 08:00 with
\* arrival 09:00 and duration 3600 s.
C11_OnlyFirstRecorded ==
  LongTripScenario =>
    /\ Len(calls) = 4
    /\ CallArrival(1) = latestArrivalDate
    /\ \A i \in 2..4 : CallArrival(i) > latestArrivalDate
    /\ pc = "returned"
    /\ thrown = <<>>
    /\ Len(result.departureTimeOptions) = 1
    /\ result.departureTimeOptions[1].departureTime = <<"0", "8", ":", "0", "0">>
    /\ result.departureTimeOptions[1].arrivalTime = <<"0", "9", ":", "0", "0">>
    /\ result.optimalDepartureTime = <<"0", "8", ":", "0", "0">>
    /\ result.estimatedArrivalTime = <<"0", "9", ":", "0", "0">>
    /\ result.durationInTraffic = 3600

C11_Witness ==
  /\ LongTripScenario
  /\ Len(calls) = 4
  /\ pc = "returned"
  /\ Len(result.departureTimeOptions) = 1
  /\ CallArrival(1) = 9 * 3600 * 1000

\* the option line 84 records for call i
RecordedOption(i) ==
  DepartureOption(calls[i].departure, CallArrival(i), calls[i].routeInfo.data)

\* how often an option stands in a list
CountOf(options, option) == Cardinality({k \in 1..Len(options) : options[k] = option})

\* the option is the one line 84 records for call i (the fields are compared
\* one by one, the formatted ones last)
IsRecordOf(option, i) ==
  /\ option.durationInTraffic = calls[i].routeInfo.data.durationInSeconds
  /\ option.distanceInMeters = calls[i].routeInfo.data.distanceInMeters
  /\ option.departureTime = formatTimeForInput(calls[i].departure)
  /\ option = RecordedOption(i)

\* every option of the list is the record of a call that succeeded and whose
\* candidate plus duration is not after the latest arrival, and stands in the
\* list at most once for each such call (two candidates an hour apart can
\* show the same clock time when the clocks go back)
OptionsMeetDeadline(options) ==
  \A k \in 1..Len(options) :
    /\ \E i \in 1..Len(calls) :
         /\ CallSucceeded(i)
         /\ IsRecordOf(options[k], i)
         /\ calls[i].departure + options[k].durationInTraffic * 1000 <= latestArrivalDate
    /\ CountOf(options, options[k]) > 1 =>
         CountOf(options, options[k])
           <= Cardinality({i \in 1..Len(calls) : CallViable(i) /\ IsRecordOf(options[k], i)})

\* C12: at every point of the sampling loop and in every returned result each
\* recorded option satisfies departure instant + travel duration <= latest
\* arrival instant, and a call that succeeded with an arrival after the latest
\* arrival has no option, neither in the list being built nor in the result.
C12_OptionsMeetDeadline ==
  /\ OptionsMeetDeadline(departureTimeOptions)
  /\ OptionsMeetDeadline(result.departureTimeOptions)
  /\ Len(departureTimeOptions) <= Cardinality(ViableCalls)
  /\ Len(result.departureTimeOptions) <= Cardinality(ViableCalls)

C12_Witness ==
  /\ pc = "returned"
  /\ Len(result.departureTimeOptions) >= 2
  /\ \E i, j \in 1..Len(calls) :
       /\ CallSucceeded(i) /\ CallArrival(i) > latestArrivalDate
       /\ CallViable(j) /\ CallArrival(j) = latestArrivalDate

\* the estimator calls that have not yet returned or failed
OutstandingCalls == {i \in 1..Len(calls) : ~calls[i].settled}

\* C13: at most one estimator call is outstanding at any time, and it is the
\* one issued last, the one the loop is awaiting: every earlier call has
\* returned or failed before the next was issued; the candidates of
\* consecutive calls are exactly 15 minutes apart, in strictly increasing order.
C13_OneCallAtATime ==
  /\ Cardinality(OutstandingCalls) <= 1
  /\ OutstandingCalls \subseteq {Len(calls)}
  /\ OutstandingCalls # {} <=> pc = "await"
  /\ pc = "await" => pending = calls[Len(calls)].departure
  /\ pc # "await" => pending = NoDate
  /\ \A i \in 1..(Len(calls) - 1) :
       /\ calls[i].departure < calls[i + 1].departure
       /\ calls[i + 1].departure - calls[i].departure = 15 * 60 * 1000

C13_Witness ==
  /\ pc = "await"
  /\ Len(calls) >= 3
  /\ OutstandingCalls = {Len(calls)}
  /\ \E i, j \in 1..(Len(calls) - 1) : CallFailed(i) /\ CallSucceeded(j)

\* C14: every invocation eventually returns or rejects, also when the
\* transport never answers the request of some estimator call.
C14_EventuallySettles == (pc = "parseLatest") ~> Done

\* the rejection reports a count of API errors and the last underlying message
ReportsApiErrors ==
  /\ pc = "rejected"
  /\ Len(thrown) >= 3
  /\ thrown[1] = "Could not calculate valid departure times due to "
  /\ \E k \in 3..4 : thrown[k] = " API errors. Last error: "

\* C15: a rejection reports an API error count and the last underlying error
\* only when every estimator call of the invocation failed; when some calls
\* failed and all the others succeeded but arrived after the latest arrival,
\* the rejection does not attribute the outcome to API errors.
C15_AggregateOnlyWhenAllFailed ==
  ReportsApiErrors => \A i \in 1..Len(calls) : CallFailed(i)

\* max(earliest-departure instant, the clock read by the validation)
EffectiveStart == IF earliestDepartureDate >= now THEN earliestDepartureDate ELSE now

\* C16: the step that validates and accepts sets the first candidate to
\* effectiveStart = max(earliest-departure instant, now), with now the clock it
\* has just read, and measures the window for the call budget from
\* effectiveStart; so the first candidate is never an instant earlier than now.
C16_StartsAtEffectiveStart ==
  [][ (pc = "validate" /\ pc' = "loop") =>
        /\ currentDepartureTime' = EffectiveStart
        /\ currentDepartureTime' >= now
        /\ timeWindowMinutes' = getTimeDifferenceInMinutes(EffectiveStart, latestArrivalDate)
        /\ maxApiCalls' = MaxApiCalls(getTimeDifferenceInMinutes(EffectiveStart, latestArrivalDate))
    ]_vars

\* both times parse, the latest arrival is after the earliest departure, and
\* the earliest departure is not more than the tolerance before now
EarlierChecksPass ==
  /\ earliestDepartureDate # NoDate
  /\ latestArrivalDate # NoDate
  /\ latestArrivalDate > earliestDepartureDate
  /\ earliestDepartureDate > now - 60000

\* minutes from max(earliest departure, now) to the latest arrival, measured
\* as the code measures a window
EffectiveWindowMinutes == getTimeDifferenceInMinutes(EffectiveStart, latestArrivalDate)

\* C17: the step that validates, when the earlier checks pass, rejects with the
\* "window too short" error and without any estimator call exactly when the
\* effective window from max(earliest departure, now) to the latest arrival is
\* shorter than 15 minutes; an invocation accepted with a window of exactly 15
\* minutes ends having issued exactly one estimator call.
C17_TooShortExactly ==
  [][ /\ (pc = "validate" /\ pc' # "validate" /\ EarlierChecksPass) =>
           ( (pc' = "rejected" /\ thrown' = ErrWindowTooShort /\ Len(calls') = 0)
               <=> EffectiveWindowMinutes < 15 )
      /\ (pc = "loop" /\ pc' \in {"returned", "rejected"} /\ timeWindowMinutes = 15) =>
           Len(calls') = 1
    ]_vars

\* the transport answered call i with route data
AnsweredWithRoute(i) ==
  /\ calls[i].settled
  /\ calls[i].response.transport = "ok"
  /\ ResponseOk(calls[i].response)
  /\ calls[i].response.durationIsNumber

\* every option of the list is the record of a call that the transport
\* answered with route data, carries the duration and the distance of that
\* answer, and stands in the list at most once for each such call
OptionsFromResponses(options) ==
  \A k \in 1..Len(options) :
    /\ \E i \in 1..Len(calls) :
         /\ AnsweredWithRoute(i)
         /\ options[k].durationInTraffic = calls[i].response.durationInSeconds
         /\ options[k].distanceInMeters = calls[i].response.distanceInMeters
         /\ IsRecordOf(options[k], i)
    /\ CountOf(options, options[k]) > 1 =>
         CountOf(options, options[k])
           <= Cardinality({i \in 1..Len(calls) :
                            AnsweredWithRoute(i) /\ IsRecordOf(options[k], i)})

\* C18: an invocation that rejects has no result at all; one that returns has
\* a result in which every option, and the optimum, carry the duration and
\* distance the transport answered for that option's candidate; a candidate
\* whose call was not answered with route data has no option, at any time.
C18_NoFabricatedData ==
  /\ pc = "rejected" => (result = NoResult /\ thrown # <<>>)
  /\ pc # "returned" => result = NoResult
  /\ pc = "returned" =>
       /\ thrown = <<>>
       /\ Len(result.departureTimeOptions) >= 1
       /\ \E k \in 1..Len(result.departureTimeOptions) :
            /\ result.optimalDepartureTime = result.departureTimeOptions[k].departureTime
            /\ result.durationInTraffic = result.departureTimeOptions[k].durationInTraffic
            /\ result.distanceInMeters = result.departureTimeOptions[k].distanceInMeters
  /\ OptionsFromResponses(departureTimeOptions)
  /\ OptionsFromResponses(result.departureTimeOptions)
  /\ Len(departureTimeOptions) <= Cardinality({i \in 1..Len(calls) : AnsweredWithRoute(i)})
  /\ Len(result.departureTimeOptions)
       <= Cardinality({i \in 1..Len(calls) : AnsweredWithRoute(i)})

C18_Witness ==
  /\ pc = "returned"
  /\ \E i, j, l \in 1..Len(calls) :
       /\ CallFailed(i) /\ calls[i].response.transport = "failed"
       /\ CallFailed(j) /\ calls[j].response.status = 404
       /\ CallViable(l)
  /\ \E k, m \in 1..Len(result.departureTimeOptions) :
       result.departureTimeOptions[k].distanceInMeters
         # result.departureTimeOptions[m].distanceInMeters

\* the instant at hours:minutes of a local day
LocalOn(day, hours, minutes) == day * MsPerDay + hours * MsPerHour + minutes * MsPerMinute

\* a local date and time that no instant has: the clocks went forward over it
SkippedLocalTime(local) ==
  /\ zone.at # NoDate
  /\ zone.shift > 0
  /\ local >= zone.at
  /\ local < zone.at + zone.shift

\* date is an instant at hours:minutes, zero seconds, not before clock:
\* today's instant at that time when that is not before clock, otherwise that
\* time on the next day
ParsedToNextOccurrence(date, hours, minutes, clock) ==
  LET today == setHours(clock, hours, minutes) IN
    /\ date # NoDate
    /\ getHours(date) = hours
    /\ getMinutes(date) = minutes
    /\ LocalTime(date) % MsPerMinute = 0
    /\ date >= clock
    /\ today >= clock => date = today
    /\ today < clock => getDate(date) = getDate(clock) + 1

\* date is not before clock and shows the time hours:minutes moved on by the
\* amount of the clock change
ParsedPastSkippedTime(date, hours, minutes, clock) ==
  /\ date # NoDate
  /\ date >= clock
  /\ LocalTime(date) % MsPerDay = hours * MsPerHour + minutes * MsPerMinute + zone.shift

\* the clock seen by a call of parseTimeToDate: one of its two reads
ClocksOfParse == {parseClock, checkClock}

\* C19 as claimed: for every valid "H:MM" or "HH:MM" string and every current
\* time, parseTimeToDate returns an instant at that hour and minute, with zero
\* seconds, that is not before now: the instant at that time on the day of now
\* when that is not strictly before now, and the same time on the next day
\* otherwise.
C19_ParsesToNextOccurrence ==
  pc = "parsed" =>
    \A case \in ValidParseCases :
      earliestDeparture = case[1] =>
        \E clock \in ClocksOfParse :
          ParsedToNextOccurrence(earliestDepartureDate, case[2], case[3], clock)

\* C19 as amended: the same, unless a clock change of the time zone skips that
\* local time on the day of now or, when the time has passed on the day of now,
\* on the next day; then the instant returned is not before now and shows the
\* time moved on by the amount of the change (02:30 becomes 03:30).
C19_ParsesToNextOccurrenceUnlessSkipped ==
  pc = "parsed" =>
    \A case \in ValidParseCases :
      earliestDeparture = case[1] =>
        \E clock \in ClocksOfParse :
          LET day == getDate(clock)
              passed == setHours(clock, case[2], case[3]) < clock
          IN IF \/ SkippedLocalTime(LocalOn(day, case[2], case[3]))
                \/ passed /\ SkippedLocalTime(LocalOn(day + 1, case[2], case[3]))
             THEN ParsedPastSkippedTime(earliestDepartureDate, case[2], case[3], clock)
             ELSE ParsedToNextOccurrence(earliestDepartureDate, case[2], case[3], clock)

\* "02:30" is parsed at 04:00 of the day on which the clocks went from 02:00
\* to 03:00: the result is 03:30 of the next day, a day that has a 02:30
C19_Witness ==
  /\ pc = "parsed"
  /\ zone = SpringForward
  /\ earliestDeparture = T0230
  /\ parseClock = MsPerDay + At(3, 0, 0)
  /\ now = parseClock
  /\ getHours(parseClock) = 4
  /\ getDate(earliestDepartureDate) = 2
  /\ getHours(earliestDepartureDate) = 3
  /\ getMinutes(earliestDepartureDate) = 30
  /\ ~SkippedLocalTime(LocalOn(2, 2, 30))

\* C20: for every malformed time string parseTimeToDate returns null and the
\* parsing itself raises nothing; once validated, an invocation with a
\* malformed time is rejected with the "invalid ... time format" error naming
\* the earliest departure if that is malformed and the latest arrival
\* otherwise, having issued no estimator call and produced no result.
C20_MalformedRejected ==
  /\ (pc # "idle" /\ earliestDeparture \in MalformedTimeStrings) =>
       earliestDepartureDate = NoDate
  /\ (pc \notin {"idle", "parseLatest"} /\ latestArrival \in MalformedTimeStrings) =>
       latestArrivalDate = NoDate
  /\ pc \in {"parseLatest", "validate"} => thrown = <<>>
  /\ ( /\ pc \notin {"idle", "parseLatest", "validate"}
       /\ (earliestDeparture \in MalformedTimeStrings
             \/ latestArrival \in MalformedTimeStrings) )
     => /\ pc = "rejected"
        /\ Len(calls) = 0
        /\ result = NoResult
        /\ thrown =
             IF earliestDeparture \in MalformedTimeStrings
             THEN <<"Invalid earliest departure time format: ">> \o earliestDeparture
                    \o <<". Please use HH:MM.">>
             ELSE <<"Invalid latest arrival time format: ">> \o latestArrival
                    \o <<". Please use HH:MM.">>

C20_Witness ==
  /\ pc = "rejected"
  /\ earliestDeparture = <<"0", "8", ":", "0", "0">>
  /\ latestArrival = <<"0", "8", ":">>
  /\ earliestDepartureDate # NoDate
  /\ latestArrivalDate = NoDate
  /\ thrown = <<"Invalid latest arrival time format: ", "0", "8", ":", ". Please use HH:MM.">>

\* C21: for every instant a and every integer n >= 0 the difference in minutes
\* from a to addMinutes(a, n) is n, the instant returned is n minutes after a,
\* and the Date passed to addMinutes still holds a.
C21_AddMinutesRoundTrip ==
  utilCall.function = "addMinutes" =>
    /\ utilCall.difference = utilCall.minutes
    /\ utilCall.returned - utilCall.date = utilCall.minutes * 60000
    /\ utilCall.dateAfter = utilCall.date

C21_Witness ==
  /\ utilCall.function = "addMinutes"
  /\ utilCall.minutes = 185
  /\ utilCall.date = 23 * 3600000 + 59 * 60000 + 59 * 1000 + 999
  /\ utilCall.difference = 185

\* the "HH:MM" values whose minute is 00, 15, 30 or 45
QuarterHourStrings == { formatTimeForInput(At(h, m, 0)) : h \in 0..23, m \in {0, 15, 30, 45} }

\* C22: for every current time, getNearestFuture15Min returns a clock time on a
\* 15-minute boundary (minute 00, 15, 30 or 45) that, read as the next
\* occurrence of that time of day, is strictly later than now and no more
\* than 15 minutes and one second away.
C22_OnQuarterHour ==
  utilCall.function = "getNearestFuture15Min" =>
    /\ utilCall.returned \in QuarterHourStrings
    /\ LET next == parseTimeToDate(utilCall.returned, now, now)
       IN next > now /\ next - now <= 15 * MsPerMinute + MsPerSecond

\* the handler of POST /api/routes has answered a request
PostAnswered == utilCall.function = "POST" /\ utilCall.stage = "answered"

\* the number of segments of a list that carry the given speed
SegmentCount(speedReadings, speed) ==
  Cardinality({i \in 1..Len(speedReadings) : speedReadings[i] = speed})

\* C23: for every segment list the routes adapter answers SEVERE when any
\* segment is flagged TRAFFIC_JAM; otherwise, with s slow segments out of
\* t > 0, HEAVY when s/t > 0.5, MODERATE when 0.2 < s/t <= 0.5 and LIGHT when
\* s/t <= 0.2; MODERATE when the segment data is absent or empty.
C23_TrafficClassification ==
  (PostAnswered /\ utilCall.upstream \in RouteUpstreams) =>
    LET intervals == utilCall.upstream.routes[1].speedReadingIntervals
        s == SegmentCount(intervals, "SLOW")
        t == Len(intervals)
        jam == SegmentCount(intervals, "TRAFFIC_JAM")
    IN utilCall.response.trafficCondition =
         IF intervals = NoIntervals \/ t = 0 THEN "MODERATE"
         ELSE IF jam > 0 THEN "SEVERE"
         ELSE IF 10 * s > 5 * t THEN "HEAVY"
         ELSE IF 10 * s > 2 * t THEN "MODERATE"
         ELSE "LIGHT"

\* one slow segment out of five (ratio 0.2) is answered 200 with LIGHT
C23_Witness ==
  /\ PostAnswered
  /\ utilCall.upstream \in RouteUpstreams
  /\ utilCall.upstream.routes[1].speedReadingIntervals = <<"SLOW", "NORMAL", "NORMAL", "NORMAL", "NORMAL">>
  /\ utilCall.response.status = 200
  /\ utilCall.response.trafficCondition = "LIGHT"

\* the trafficCondition of the pick and of every option of a returned result
ResultConditions ==
  {result.trafficCondition}
    \union { result.departureTimeOptions[i].trafficCondition :
               i \in 1..Len(result.departureTimeOptions) }

\* C24: the trafficCondition of the optimal pick and of every option of a
\* returned result is one of Light, Moderate, Heavy, Severe, whatever raw
\* condition the estimator was answered with.
C24_FourValuesWithSevere ==
  pc = "returned" => ResultConditions \subseteq {"Light", "Moderate", "Heavy", "Severe"}

\* a returned result with an option whose call was answered SEVERE: the option
\* carries "Very Heavy"
C24_Witness ==
  /\ pc = "returned"
  /\ \E i \in 1..Len(calls), k \in 1..Len(result.departureTimeOptions) :
       /\ CallViable(i)
       /\ calls[i].response.trafficCondition = "SEVERE"
       /\ IsRecordOf(result.departureTimeOptions[k], i)
       /\ result.departureTimeOptions[k].trafficCondition = "Very Heavy"

\* a string with a character that is not white space
NonBlankString(value) ==
  value.type = "string" /\ \E i \in 1..Len(value.chars) : ~IsWhiteSpace(value.chars[i])

\* a request body the handler has nothing to object to
WellFormedRequest(request) ==
  /\ request.parses
  /\ NonBlankString(request.origin)
  /\ NonBlankString(request.destination)
  /\ request.departureTime.type = "string" /\ request.departureTime.chars # <<>>

KeyConfigured(apiKey) == apiKey \notin {<<>>, UndefinedString}

\* which of the five failure conditions a call to the handler is a case of,
\* "none" when it is a case of none of them
FailureCondition(request, apiKey, upstream) ==
  IF ~request.parses \/ request.isNull THEN "none"
  ELSE IF \/ request.origin.type \in {"undefined", "null"}
          \/ request.destination.type \in {"undefined", "null"}
          \/ request.origin.type = "string" /\ ~NonBlankString(request.origin)
          \/ request.destination.type = "string" /\ ~NonBlankString(request.destination)
  THEN "address"
  ELSE IF ~WellFormedRequest(request) THEN "none"
  ELSE IF ~KeyConfigured(apiKey) THEN "credentials"
  ELSE IF upstream.transport \in {"failed", "bodyFailed"} THEN "transport"
  ELSE IF upstream \in {UpstreamZeroResults, UpstreamNotFound, UpstreamNoRoutes} THEN "noRoute"
  ELSE IF /\ upstream.status = 200 /\ upstream.isJson /\ upstream.routes # <<>>
          /\ upstream.routes[1].duration = UndefinedString
  THEN "noDuration"
  ELSE "none"

\* what the caller of the handler can tell an answer by
Outcome(response) == <<response.status, response.error>>

\* the sample calls that are a case of a failure condition
FailureCases == { case \in SampleCases : FailureCondition(case[1], case[2], case[3]) # "none" }

\* C25: each of the five failure conditions (missing or blank address,
\* missing credentials, no route found, answer without duration, transport
\* failure) is answered with an error status and makes estimateTravelTime
\* throw; answers to different conditions differ in status or message, and so
\* do the messages thrown; a sample answered with any of them is counted as
\* one failed sample and yields no option.
C25_FailuresSurfaceDistinctly ==
  /\ PostAnswered =>
       LET condition == FailureCondition(utilCall.request, utilCall.apiKey, utilCall.upstream)
           estimate == estimateTravelTime(utilCall.response)
       IN condition # "none" =>
            /\ ~ResponseOk(utilCall.response)
            /\ estimate.threw
            /\ estimate.message # estimateTravelTime(NetworkFailure).message
            /\ \A case \in FailureCases :
                 FailureCondition(case[1], case[2], case[3]) # condition =>
                   LET other == POST(case[1], case[2], case[3]).response
                   IN /\ Outcome(other) # Outcome(utilCall.response)
                      /\ estimateTravelTime(other).message # estimate.message
  /\ (Len(calls) = 1 /\ calls[1].settled) =>
       \A response \in { POST(case[1], case[2], case[3]).response : case \in FailureCases }
                         \union {NetworkFailure} :
         calls[1].response = response =>
           /\ calls[1].routeInfo.threw
           /\ apiCallErrors = 1
           /\ apiCallCount = 1
           /\ lastError = estimateTravelTime(response).message
           /\ departureTimeOptions = <<>>

\* the sample was answered by the handler without an API key: one failed sample
C25_Witness ==
  /\ pc = "rejected"
  /\ Len(calls) = 1
  /\ calls[1].response = POST(GoodRequest, UndefinedString, RouteFound(NoIntervals)).response
  /\ apiCallErrors = 1
  /\ thrown = ErrAllFailed(1, <<"Failed to get route information: ",
                               "Server configuration error: API key missing",
                               " (Status: ">> \o StringOfNumber(500) \o <<")">>)

\* min(ceil(W / 15), 12) for the window W of the invocation
SampleBudget == IF WindowMinutes > 165 THEN 12 ELSE (WindowMinutes + 14) \div 15

\* C26: an accepted invocation queries only candidates strictly before the
\* latest-arrival instant and no later than start + 165 minutes; while the
\* budget min(ceil(W/15), 12) is not used up the next candidate is still
\* before the latest arrival, so the comparison of the candidate with the
\* latest arrival never ends the loop early, and an invocation that has ended
\* has made exactly min(ceil(W/15), 12) calls.
C26_ExactlyTheBudget ==
  Accepted =>
    /\ maxApiCalls = SampleBudget
    /\ Len(calls) <= SampleBudget
    /\ \A i \in 1..Len(calls) :
         /\ calls[i].departure < latestArrivalDate
         /\ calls[i].departure <= earliestDepartureDate + 165 * 60000
    /\ (pc = "loop" /\ apiCallCount < SampleBudget) => currentDepartureTime < latestArrivalDate
    /\ Done => (Len(calls) = SampleBudget /\ apiCallCount = SampleBudget)

\* a window of 50 minutes: four calls, and the candidate after the last one
\* is past the latest arrival
C26_Witness ==
  /\ Done /\ Accepted
  /\ WindowMinutes = 50
  /\ Len(calls) = 4
  /\ calls[4].departure = latestArrivalDate - 5 * 60000
  /\ currentDepartureTime > latestArrivalDate

\* C27: an invocation is rejected with "Earliest departure time must be in the
\* future." only if the clock read by the past check is at least 60 seconds
\* after the clock that the parse of earliestDeparture compared the time with
\* (its second read, which is not before its first); a time of day that has
\* passed when it is compared is resolved to tomorrow, so the parsed instant
\* is never before the clocks of the parse.
C27_NoPastRejectionWithinTolerance ==
  /\ (pc \notin {"idle", "called"} /\ earliestDepartureDate # NoDate) =>
       /\ checkClock >= parseClock
       /\ earliestDepartureDate >= checkClock
  /\ thrown = ErrInPast => now - checkClock >= 60000

\* the clock advanced by 45 seconds and passed the earliest departure, which
\* was accepted
C27_Witness ==
  /\ Accepted
  /\ checkClock = parseClock
  /\ now - checkClock = 45000
  /\ earliestDepartureDate < now
  /\ thrown # ErrInPast

\* both strings parsed and the checks of lines 25-50 have run
Validated ==
  /\ pc \in {"loop", "await", "returned", "rejected"}
  /\ earliestDepartureDate # NoDate
  /\ latestArrivalDate # NoDate

\* the time of day a valid time string names, in milliseconds after midnight
TimeOfDayOf(timeString) ==
  LET c == IndexOfColon(timeString) IN
    NumberOfDigits(SubSeq(timeString, 1, c - 1)) * MsPerHour
      + NumberOfDigits(SubSeq(timeString, c + 1, Len(timeString))) * MsPerMinute

EarliestTimeOfDay == TimeOfDayOf(earliestDeparture)

LatestTimeOfDay == TimeOfDayOf(latestArrival)

\* the time of day the clock of the zone shows at the instant t
ClockTimeOfDay(t) == LocalTime(t) % MsPerDay

\* the instant at a time of day of a local day
ResolvedOn(day, timeOfDay) == UTC(day * MsPerDay + timeOfDay)

\* E < now <= L: the earliest departure had passed when it was parsed, the
\* latest arrival has not passed yet
EarliestPassedLatestNot ==
  /\ getDate(now) = getDate(parseClock)
  /\ EarliestTimeOfDay < ClockTimeOfDay(parseClock)
  /\ ClockTimeOfDay(now) <= LatestTimeOfDay

\* E < L < now: both times of day had passed when the strings were parsed
BothPassed ==
  LET latest == LatestTimeOfDay
  IN /\ latest < ClockTimeOfDay(parseClock)
     /\ EarliestTimeOfDay < latest

\* both strings are resolved to the day after the invocation
BothResolvedToTomorrow ==
  /\ earliestDepartureDate = ResolvedOn(getDate(parseClock) + 1, EarliestTimeOfDay)
  /\ latestArrivalDate = ResolvedOn(getDate(parseClock) + 1, LatestTimeOfDay)

\* with E < now <= L the earliest departure is resolved to tomorrow, the latest
\* arrival to today, the rejection is "must be after" and no call is issued
NotAfterWhenEarliestPassed ==
  (Validated /\ EarliestPassedLatestNot) =>
    /\ earliestDepartureDate = ResolvedOn(getDate(parseClock) + 1, EarliestTimeOfDay)
    /\ latestArrivalDate = ResolvedOn(getDate(parseClock), LatestTimeOfDay)
    /\ thrown = ErrNotAfter
    /\ calls = <<>>

\* C28 as stated: with E < now <= L the invocation is rejected with "must be
\* after" and issues no call; with both times of day passed both are resolved
\* to tomorrow and the invocation is accepted.
C28_BothPassedAccepted ==
  /\ NotAfterWhenEarliestPassed
  /\ (Validated /\ BothPassed) => (BothResolvedToTomorrow /\ Accepted)

\* C28: with E < now <= L the invocation is rejected with "must be after" and
\* issues no call; with both times of day passed both are resolved to
\* tomorrow, and the invocation is accepted when tomorrow's L is at least 15
\* minutes after tomorrow's E; otherwise it is rejected without a call, as too
\* short a window, or as "must be after" when a clock change puts tomorrow's L
\* at or before tomorrow's E.
C28_BothPassedAcceptedIfWindow ==
  /\ NotAfterWhenEarliestPassed
  /\ (Validated /\ BothPassed) =>
       /\ BothResolvedToTomorrow
       /\ IF latestArrivalDate - earliestDepartureDate >= MinWindowMinutes * MsPerMinute
          THEN Accepted
          ELSE /\ ~Accepted
               /\ calls = <<>>
               /\ thrown = IF latestArrivalDate <= earliestDepartureDate
                           THEN ErrNotAfter ELSE ErrWindowTooShort

\* both times of day passed, resolved to tomorrow, accepted
C28_Witness ==
  /\ Validated /\ BothPassed
  /\ earliestDepartureDate >= MsPerDay
  /\ Accepted
  /\ Len(calls) >= 1

\* the instant of the first query as the earliestDeparture string and the
\* two clock reads of its parse give it
FirstQueriedInstant == parseTimeToDate(earliestDeparture, parseClock, checkClock)

\* the number of queries as the two parsed instants give it
QueryCount ==
  MathMin(MathCeil(getTimeDifferenceInMinutes(earliestDepartureDate, latestArrivalDate),
                   SampleIntervalMinutes),
          MaxCallsCap)

\* C29: the instants queried by an accepted invocation, and their number once
\* it has ended, are given by the two time strings and the clock alone: the
\* i-th query is for the parsed earliest departure plus 15 (i - 1) minutes
\* whatever the estimator answered to the queries before it (success, late
\* arrival or failure), and an invocation that has ended has made
\* min(ceil(W/15), 12) queries whatever the answers were.
C29_QueriesIndependentOfAnswers ==
  Accepted =>
    /\ LET first == FirstQueriedInstant
       IN \A i \in 1..Len(calls) :
            calls[i].departure = first + (i - 1) * SampleIntervalMinutes * MsPerMinute
    /\ Len(calls) <= QueryCount
    /\ Done => Len(calls) = QueryCount

\* an ended invocation whose three queries were answered by a failure, by a
\* success that arrives late and by a success in time
C29_Witness ==
  /\ Done /\ Accepted
  /\ Len(calls) = 3
  /\ \E i, j, k \in 1..3 :
       /\ CallFailed(i)
       /\ CallSucceeded(j) /\ CallArrival(j) > latestArrivalDate
       /\ CallViable(k)
  /\ calls[3].departure = FirstQueriedInstant + 2 * SampleIntervalMinutes * MsPerMinute

\* a field that is missing, not a string, empty or white space only
MissingBlankOrNotString(value) == value.type # "string" \/ ~NonBlankString(value)

\* a field that is missing, not a string or empty
MissingEmptyOrNotString(value) == value.type # "string" \/ value.chars = <<>>

\* the request body is a JSON value whose fields the handler can read
BodyRead(request) == request.parses /\ ~request.isNull

\* C30 as stated: the handler calls the provider neither when origin,
\* destination or departureTime is missing, blank or not a string nor when
\* the API key is not configured; it answers 400 for a bad input, also when
\* the key is missing as well, and 500 for a missing key alone.
C30_NoUpstreamOnBadInput ==
  (utilCall.function = "POST" /\ BodyRead(utilCall.request)) =>
    LET badInput == \/ MissingBlankOrNotString(utilCall.request.origin)
                    \/ MissingBlankOrNotString(utilCall.request.destination)
                    \/ MissingBlankOrNotString(utilCall.request.departureTime)
    IN /\ (badInput \/ ~KeyConfigured(utilCall.apiKey)) => ~utilCall.fetched
       /\ utilCall.stage = "answered" =>
            /\ badInput => utilCall.response.status = 400
            /\ (~badInput /\ ~KeyConfigured(utilCall.apiKey)) => utilCall.response.status = 500

\* C30: the handler calls the provider neither when origin or destination is
\* missing, blank or not a string, nor when departureTime is missing, empty or
\* not a string, nor when the API key is not configured; it answers 400 for
\* such an input, also when the key is missing as well, and 500 for a missing
\* key alone; a departureTime of white space only is not a bad input: with the
\* other fields good and the key configured the provider is called.  A body
\* that is not JSON or is the value null is answered 500 and the provider is
\* not called.
C30_NoUpstreamOnRejectedInput ==
  utilCall.function = "POST" =>
    IF ~BodyRead(utilCall.request)
    THEN /\ ~utilCall.fetched
         /\ utilCall.stage = "answered" => utilCall.response.status = 500
    ELSE LET badInput == \/ MissingBlankOrNotString(utilCall.request.origin)
                         \/ MissingBlankOrNotString(utilCall.request.destination)
                         \/ MissingEmptyOrNotString(utilCall.request.departureTime)
         IN /\ (badInput \/ ~KeyConfigured(utilCall.apiKey)) => ~utilCall.fetched
            /\ utilCall.stage = "answered" =>
                 /\ badInput => utilCall.response.status = 400
                 /\ (~badInput /\ ~KeyConfigured(utilCall.apiKey)) =>
                      utilCall.response.status = 500
            /\ (~badInput /\ KeyConfigured(utilCall.apiKey) /\ utilCall.stage # "request") =>
                 utilCall.fetched

\* a blank destination and no API key: answered 400, the provider is not called
C30_Witness ==
  /\ PostAnswered
  /\ utilCall.request.origin = GoodAddress
  /\ utilCall.request.destination = JsonString(<<" ", "\t">>)
  /\ utilCall.apiKey = UndefinedString
  /\ utilCall.response.status = 400
  /\ ~utilCall.fetched

====
